---- MODULE Spec2Model ----
(***************************************************************************)
(* A model of the task parser of todo-ai (src/src/services/aiTaskParser.ts)*)
(* AITaskParser.parse as a step machine, the normalizer                    *)
(* validateAndCleanParsedTask and the rule-based extractors as operators.  *)
(* Further down: several concurrent callers of parse, the useTasks hook    *)
(* with the components that call it, and AuthProvider's effect.            *)
(*                                                                         *)
(* Text is a sequence of units: the unit " " is one whitespace character,  *)
(* every other unit is a run of non-whitespace characters.  Units that are *)
(* neighbours in the sequence are adjacent in the text.                    *)
(* JavaScript values are records tagged by their type.                     *)
(***************************************************************************)
EXTENDS Integers, Sequences, FiniteSets, TLC

VARIABLES
    apiKey,         \* import.meta.env.VITE_OPENAI_API_KEY is set
    openai,         \* AITaskParser.openai: "null" or "client"
    isInitialized,  \* AITaskParser.isInitialized
    clientsBuilt,   \* how many times new OpenAI(...) ran
    pc,             \* position of the parse call in flight
    input,          \* argument of the parse call in flight
    now,            \* the wall clock, minutes since 1970-01-01T00:00
    requests,       \* chat.completions.create calls issued by this parse call
    response,       \* outcome of the model call
    result,         \* what parse returned, or NoResult
    via,            \* which function built the returned task
    cand,           \* normalizer study: the candidate
    once,           \* normalizer study: normalize(cand)
    twice,          \* normalizer study: normalize(normalize(cand))
    stage,          \* normalizer study: how many normalizations were applied
    calls,          \* the parse calls of several callers: position, argument, result
    user,           \* AuthProvider's user state, which useTasks reads through useAuth
    isLoading,      \* AuthProvider's isLoading state
    auth,           \* AuthProvider's effect: mounted, the timer, the pending getSession
    tasks,          \* useTasks' tasks state, the list the interface shows
    rows,           \* the rows of the tasks table in the store
    toasts,         \* the notifications raised by the operation in flight or last ended
    op,             \* the hook operation in flight, stopped at its await
    form,           \* TaskInput's input and isProcessing state
    configured      \* VITE_SUPABASE_URL and VITE_SUPABASE_ANON_KEY are set

parseVars == <<apiKey, openai, isInitialized, clientsBuilt, pc, input, now,
               requests, response, result, via>>
normVars == <<cand, once, twice, stage>>
callVars == <<calls>>
authVars == <<user, isLoading, auth>>
hookVars == <<tasks, rows, toasts, op, form, configured>>
appVars == <<callVars, authVars, hookVars>>
vars == <<parseVars, normVars, appVars>>

(***************************************************************************)
(* JavaScript values                                                       *)
(***************************************************************************)
Undef == [type |-> "undefined"]
Null == [type |-> "null"]
Num(n) == [type |-> "number", v |-> n]
Str(s) == [type |-> "string", v |-> s]
Arr(a) == [type |-> "array", v |-> a]
Obj(f) == [type |-> "object", v |-> f]
DateOf(t) == [type |-> "date", valid |-> TRUE, t |-> t]
InvalidDate == [type |-> "date", valid |-> FALSE, t |-> 0]

\* parsed.<name>: a property read; on null and undefined it throws instead
Get(x, name) ==
    IF x.type = "object" /\ name \in DOMAIN x.v THEN x.v[name] ELSE Undef

\* ToBoolean, as used by ||, ?: and !
Truthy(x) ==
    CASE x.type \in {"undefined", "null"} -> FALSE
      [] x.type = "number" -> x.v # 0
      [] x.type = "string" -> x.v # <<>>
      [] OTHER -> TRUE

\* the decimal numerals the model's texts contain, with their values
Numerals ==
    [u \in {"00", "0", "1", "3", "5", "06", "6", "12", "13", "15", "17", "25",
            "29", "02", "30", "31", "40", "42", "2024", "2025", "2026"} |->
        CASE u \in {"00", "0"} -> 0
          [] u = "1" -> 1
          [] u = "02" -> 2
          [] u = "3" -> 3
          [] u = "5" -> 5
          [] u \in {"06", "6"} -> 6
          [] u = "12" -> 12
          [] u = "13" -> 13
          [] u = "15" -> 15
          [] u = "17" -> 17
          [] u = "25" -> 25
          [] u = "29" -> 29
          [] u = "30" -> 30
          [] u = "31" -> 31
          [] u = "40" -> 40
          [] u = "42" -> 42
          [] u = "2024" -> 2024
          [] u = "2025" -> 2025
          [] u = "2026" -> 2026]

IsNumeral(u) == u \in DOMAIN Numerals
parseInt(u) == Numerals[u]

\* String.prototype.trim
RECURSIVE TrimLeft(_)
TrimLeft(s) == IF s # <<>> /\ Head(s) = " " THEN TrimLeft(Tail(s)) ELSE s
RECURSIVE TrimRight(_)
TrimRight(s) ==
    IF s # <<>> /\ s[Len(s)] = " " THEN TrimRight(SubSeq(s, 1, Len(s) - 1)) ELSE s
trim(s) == TrimRight(TrimLeft(s))

\* String(x)
RECURSIVE ToStringUnits(_)
ToStringUnits(x) ==
    CASE x.type = "string" -> x.v
      [] x.type = "number" -> <<"42">>
      [] x.type = "undefined" -> <<"undefined">>
      [] x.type = "null" -> <<"null">>
      [] x.type = "object" -> <<"[object", " ", "Object]">>
      [] x.type = "date" -> <<"[date]">>
      [] x.type = "array" ->
            IF x.v = <<>> THEN <<>>
            ELSE IF Len(x.v) = 1 THEN ToStringUnits(x.v[1])
            ELSE ToStringUnits(x.v[1]) \o <<",">> \o ToStringUnits(Arr(Tail(x.v)))

SelectSeqStrings(a) == SelectSeq(a, LAMBDA e : e.type = "string")

(***************************************************************************)
(* Calendar arithmetic: a Date is its count of minutes since 1970-01-01.   *)
(***************************************************************************)
MinutesPerDay == 24 * 60

\* days since 1970-01-01 of year y, month m (1..12), day d
DaysFromEra(era, yoe, doy) ==
    era * 146097 + yoe * 365 + (yoe \div 4) - (yoe \div 100) + doy - 719468
DaysFromMarch(yy, mp, d) ==
    DaysFromEra(yy \div 400, yy % 400, ((153 * mp + 2) \div 5) + d - 1)
DaysFromCivil(y, m, d) ==
    DaysFromMarch(IF m <= 2 THEN y - 1 ELSE y, IF m > 2 THEN m - 3 ELSE m + 9, d)

\* the inverse: [y, m (1..12), d] of a day count
CivilOfMonth(y0, mp, d) ==
    [y |-> IF mp < 10 THEN y0 ELSE y0 + 1, m |-> IF mp < 10 THEN mp + 3 ELSE mp - 9,
     d |-> d]
CivilOfMonthDay(y0, doy, mp) == CivilOfMonth(y0, mp, doy - ((153 * mp + 2) \div 5) + 1)
CivilOfYearDay(y0, doy) == CivilOfMonthDay(y0, doy, (5 * doy + 2) \div 153)
CivilOfYear(era, doe, yoe) ==
    CivilOfYearDay(yoe + era * 400, doe - (365 * yoe + (yoe \div 4) - (yoe \div 100)))
CivilOfEra(era, doe) ==
    CivilOfYear(era, doe,
                (doe - (doe \div 1460) + (doe \div 36524) - (doe \div 146096)) \div 365)
CivilFromDays(z) == CivilOfEra((z + 719468) \div 146097, (z + 719468) % 146097)

\* new Date(year, monthIndex, day, hours, minutes): out-of-range parts carry over
NewDate(year, monthIndex, day, hours, minutes) ==
    (DaysFromCivil(year + (monthIndex \div 12), (monthIndex % 12) + 1, 1) + day - 1)
        * MinutesPerDay + hours * 60 + minutes

getFullYear(t) == CivilFromDays(t \div MinutesPerDay).y
getMonth(t) == CivilFromDays(t \div MinutesPerDay).m - 1
getDate(t) == CivilFromDays(t \div MinutesPerDay).d
getHours(t) == (t % MinutesPerDay) \div 60
getMinutes(t) == t % 60
\* 1970-01-01 was a Thursday (4)
getDay(t) == ((t \div MinutesPerDay) + 4) % 7

isLeapYear(y) == y % 400 = 0 \/ (y % 4 = 0 /\ y % 100 # 0)
DaysInMonth(y, m) ==
    CASE m = 2 -> IF isLeapYear(y) THEN 29 ELSE 28
      [] m \in {4, 6, 9, 11} -> 30
      [] OTHER -> 31

(***************************************************************************)
(* The normalizer                                                          *)
(***************************************************************************)
TwoDigits(u) == u \in {"00", "02", "06", "12", "13", "15", "17", "25", "29",
                       "30", "31", "40", "42"}
FourDigits(u) == u \in {"2024", "2025", "2026"}

\* date-fns parseISO on a string: YYYY-MM-DD, optionally followed by THH:mm;
\* anything else, or a date or time that does not exist, is an Invalid Date
parseISOUnits(s) ==
    LET dateOk == /\ Len(s) \in {5, 9}
                  /\ FourDigits(s[1]) /\ s[2] = "-" /\ TwoDigits(s[3])
                  /\ s[4] = "-" /\ TwoDigits(s[5])
        timeOk == Len(s) = 9 => s[6] = "T" /\ TwoDigits(s[7]) /\ s[8] = ":"
                                /\ TwoDigits(s[9])
    IN  IF ~(dateOk /\ timeOk) THEN InvalidDate
        ELSE LET y == parseInt(s[1])
                 m == parseInt(s[3])
                 d == parseInt(s[5])
                 h == IF Len(s) = 9 THEN parseInt(s[7]) ELSE 0
                 mi == IF Len(s) = 9 THEN parseInt(s[9]) ELSE 0
             IN  IF /\ m \in 1..12
                    /\ d >= 1 /\ d <= DaysInMonth(y, m)
                    /\ h \in 0..24 /\ mi \in 0..59 /\ (h = 24 => mi = 0)
                 THEN DateOf(DaysFromCivil(y, m, d) * MinutesPerDay + h * 60 + mi)
                 ELSE InvalidDate

\* parseISO(argument): an argument that is no string gives an Invalid Date or
\* throws, depending on the library version; parseDueDate treats both alike
parseISO(x) == IF x.type = "string" THEN parseISOUnits(x.v) ELSE InvalidDate

isValid(d) == d.type = "date" /\ d.valid

\* parseDueDate without the isValid test: what parseISO gave is kept
parseDueDateUnchecked(dateString) ==
    IF ~Truthy(dateString) THEN Undef ELSE parseISO(dateString)

parseDueDate(dateString) ==
    IF ~Truthy(dateString) THEN Undef
    ELSE LET date == parseISO(dateString)
         IN  IF isValid(date) THEN date ELSE Undef

lowP == Str(<<"low">>)
mediumP == Str(<<"medium">>)
highP == Str(<<"high">>)
urgentP == Str(<<"urgent">>)
workC == Str(<<"work">>)
personalC == Str(<<"personal">>)
healthC == Str(<<"health">>)
learningC == Str(<<"learning">>)
otherC == Str(<<"other">>)
validPriorities == {lowP, mediumP, highP, urgentP}
validCategories == {workC, personalC, healthC, learningC, otherC}
UntitledTask == <<"Untitled", " ", "Task">>

\* reading a property of null or undefined raises a TypeError
NormalizerThrows(parsed) == parsed.type \in {"null", "undefined"}

\* a normalizer that keeps any string it finds as priority or category
keepAnyString(parsed) ==
    Obj([title |-> Str(trim(ToStringUnits(
                      IF Truthy(Get(parsed, "title")) THEN Get(parsed, "title")
                      ELSE Str(UntitledTask)))),
         description |-> IF Truthy(Get(parsed, "description"))
                         THEN Str(trim(ToStringUnits(Get(parsed, "description"))))
                         ELSE Undef,
         priority |-> IF Get(parsed, "priority").type = "string"
                      THEN Get(parsed, "priority") ELSE mediumP,
         category |-> IF Get(parsed, "category").type = "string"
                      THEN Get(parsed, "category") ELSE otherC,
         dueDate |-> parseDueDate(Get(parsed, "dueDate")),
         tags |-> IF Get(parsed, "tags").type = "array"
                  THEN Arr(SelectSeqStrings(Get(parsed, "tags").v))
                  ELSE Arr(<<>>)])

validateAndCleanParsedTask(parsed) ==
    LET title == Get(parsed, "title")
        description == Get(parsed, "description")
        priority == Get(parsed, "priority")
        category == Get(parsed, "category")
        tags == Get(parsed, "tags")
    IN  Obj([title |-> Str(trim(ToStringUnits(
                          IF Truthy(title) THEN title ELSE Str(UntitledTask)))),
             description |-> IF Truthy(description)
                             THEN Str(trim(ToStringUnits(description)))
                             ELSE Undef,
             priority |-> IF priority \in validPriorities THEN priority ELSE mediumP,
             category |-> IF category \in validCategories THEN category ELSE otherC,
             dueDate |-> parseDueDate(Get(parsed, "dueDate")),
             tags |-> IF tags.type = "array" THEN Arr(SelectSeqStrings(tags.v))
                      ELSE Arr(<<>>)])

(***************************************************************************)
(* Candidates handed to the normalizer: the JSON values a model reply can  *)
(* hold.  A field drawn as Undef is a field the object does not have.      *)
(***************************************************************************)
ObjOf(f) == Obj([k \in {n \in DOMAIN f : f[n] # Undef} |-> f[k]])

TitleValues ==
    {Undef, Str(<<>>), Str(<<" ", " ">>), Str(<<" ", "Buy", " ", "milk", " ">>),
     Str(<<"Buy", " ", "milk">>), Num(0), Arr(<<>>)}
DescriptionValues == {Undef, Str(<<" ", "two", " ", "litres">>), Str(<<" ">>)}
PriorityValues == validPriorities \cup {Undef, Str(<<"banana">>), Str(<<"HIGH">>), Num(42)}
CategoryValues == validCategories \cup {Undef, Str(<<"banana">>), Num(42)}
IsoDateTexts ==
    {<<y, "-", m, "-", d>> :
        y \in {"2024", "2025"}, m \in {"02", "06", "13"}, d \in {"00", "15", "29", "31", "40"}}
IsoDateTimeTexts ==
    {<<"2025", "-", "06", "-", d, "T", h, ":", mi>> :
        d \in {"25", "31"}, h \in {"00", "17", "25"}, mi \in {"00", "30"}}
DueDateValues ==
    {Undef, Null, Num(42), Str(<<>>), Str(<<"tomorrow">>), Str(<<"2025", "-", "6", "-", "25">>)}
        \cup {Str(t) : t \in IsoDateTexts \cup IsoDateTimeTexts}
TagsValues ==
    {Undef, Str(<<"work">>), Arr(<<>>), Arr(<<Str(<<"work">>), Num(42), Str(<<"bob">>)>>)}

JsonObjects(T, D, P, C, DD, TG) ==
    {ObjOf([title |-> t, description |-> d, priority |-> p, category |-> c,
            dueDate |-> dd, tags |-> tg]) :
        t \in T, d \in D, p \in P, c \in C, dd \in DD, tg \in TG}

\* one field varies at a time around a plain object, and around the empty one
Plain == [title |-> Str(<<"Buy", " ", "milk">>), description |-> Undef,
          priority |-> highP, category |-> personalC, dueDate |-> Undef,
          tags |-> Arr(<<>>)]
Candidates ==
    {Null, Num(42), Str(<<"hello">>), Arr(<<>>)}
        \cup JsonObjects(TitleValues, DescriptionValues, {highP, Undef}, {Undef},
                         {Undef, Str(<<"2025", "-", "06", "-", "15">>)}, TagsValues)
        \cup JsonObjects({Plain.title, Str(<<" ", " ">>)}, {Undef}, PriorityValues,
                         CategoryValues, {Undef}, {Undef})
        \cup JsonObjects({Plain.title, Undef}, {Undef}, {highP, Str(<<"banana">>)},
                         {Undef, workC}, DueDateValues, {Undef, Arr(<<>>)})

(***************************************************************************)
(* The normalizer applied to a candidate, and again to its own output      *)
(***************************************************************************)
NoValue == [type |-> "none"]

\* no further caller, no provider and no hook is mounted
CallsIdle == calls = <<>>
AuthIdle == user = Null /\ isLoading = TRUE /\ auth = NoValue
HookIdle ==
    /\ tasks = <<>> /\ rows = <<>> /\ toasts = {} /\ op = NoValue /\ form = NoValue
    /\ configured = FALSE
AppIdle == CallsIdle /\ AuthIdle /\ HookIdle
NormIdle == cand = NoValue /\ once = NoValue /\ twice = NoValue /\ stage = 0

ParseIdle ==
    /\ apiKey = FALSE /\ openai = "null" /\ isInitialized = FALSE
    /\ clientsBuilt = 0 /\ pc = "idle" /\ input = <<>> /\ now = 0
    /\ requests = 0 /\ response = NoValue /\ result = NoValue
    /\ via = "none"

InitNorm ==
    /\ ParseIdle
    /\ cand \in Candidates
    /\ once = NoValue /\ twice = NoValue /\ stage = 0
    /\ AppIdle

NormalizeThrows ==
    /\ stage = 0 /\ NormalizerThrows(cand)
    /\ stage' = 3
    /\ UNCHANGED <<cand, once, twice, parseVars, appVars>>

NormalizeOnce ==
    /\ stage = 0 /\ ~NormalizerThrows(cand)
    /\ once' = validateAndCleanParsedTask(cand)
    /\ stage' = 1
    /\ UNCHANGED <<cand, twice, parseVars, appVars>>

NormalizeTwice ==
    /\ stage = 1
    /\ twice' = validateAndCleanParsedTask(once)
    /\ stage' = 2
    /\ UNCHANGED <<cand, once, parseVars, appVars>>

NextNorm == NormalizeThrows \/ NormalizeOnce \/ NormalizeTwice
SpecNorm == InitNorm /\ [][NextNorm]_vars

(***************************************************************************)
(* Text helpers for the rule-based extractors.  A word unit is a run of    *)
(* \w characters, a punctuation unit is one character that is not \w; no   *)
(* unit holds both, so a regular expression matches whole units.           *)
(***************************************************************************)
Punctuation == {":", "/", "-", ".", "#", "@", ","}
IsWordUnit(u) == u \notin Punctuation \cup {" "}

\* String.prototype.toLowerCase, and the case folding of the /i flag
LowerUnit(u) ==
    CASE u = "PM" -> "pm"
      [] u = "AM" -> "am"
      [] u = "Urgent" -> "urgent"
      [] u = "June" -> "june"
      [] u = "Call" -> "call"
      [] u = "Plugh" -> "plugh"
      [] u = "Meeting" -> "meeting"
      [] u = "Friday" -> "friday"
      [] OTHER -> u
toLowerCase(s) == [i \in 1..Len(s) |-> LowerUnit(s[i])]

InText(s, i) == i >= 1 /\ i <= Len(s)
WordAt(s, i) == InText(s, i) /\ IsWordUnit(s[i])
\* \b between unit i-1 and unit i
Boundary(s, i) == WordAt(s, i - 1) # WordAt(s, i)

\* the units of kw stand at s[i], s[i+1], ..., compared without case
UnitsAt(s, i, kw) ==
    /\ i >= 1 /\ i + Len(kw) - 1 <= Len(s)
    /\ \A k \in 1..Len(kw) : LowerUnit(s[i + k - 1]) = kw[k]

\* /\b(kw)\b/i matches at unit i
PhraseAt(s, i, kw) ==
    /\ UnitsAt(s, i, kw)
    /\ Boundary(s, i) /\ Boundary(s, i + Len(kw))

\* /\b(k1|k2|...)\b/i.test(s)
TestWords(s, kws) == \E i \in 1..Len(s) : \E kw \in kws : PhraseAt(s, i, kw)

\* s.includes(kw) for a text s already in lower case
includes(s, kw) ==
    \E i \in 1..Len(s) :
        /\ i + Len(kw) - 1 <= Len(s)
        /\ \A k \in 1..Len(kw) : s[i + k - 1] = kw[k]

\* how many whitespace units stand at s[i], s[i+1], ...
RECURSIVE Spaces(_, _)
Spaces(s, i) == IF InText(s, i) /\ s[i] = " " THEN 1 + Spaces(s, i + 1) ELSE 0

\* how many word units stand at s[i], s[i+1], ...: the extent of \w+
RECURSIVE WordRun(_, _)
WordRun(s, i) == IF WordAt(s, i) THEN 1 + WordRun(s, i + 1) ELSE 0

\* /\d+/ on one unit, and /\d{1,2}/, /\d{2}/, /\d{4}/
IsDigits(u) == IsNumeral(u)
Digits12(u) == IsNumeral(u) /\ ~FourDigits(u)
Digits2(u) == TwoDigits(u)

(***************************************************************************)
(* Rule-based extractors of description, priority, category and tags       *)
(***************************************************************************)
\* /(?:notes?|details?|description):\s*(.+)/i, then trim of the group
extractDescription(inp) ==
    LET hits == {i \in 1..Len(inp) :
                    /\ LowerUnit(inp[i]) \in {"note", "notes", "detail", "details",
                                              "description"}
                    /\ InText(inp, i + 1) /\ inp[i + 1] = ":"
                    /\ InText(inp, i + 2)}
    IN  IF hits = {} THEN Undef
        ELSE LET i == CHOOSE h \in hits : \A g \in hits : h <= g
             IN  Str(trim(SubSeq(inp, i + 2, Len(inp))))

UrgentWords == {<<"urgent">>, <<"asap">>, <<"critical">>, <<"emergency">>, <<"now">>}
HighWords == {<<"important">>, <<"high", " ", "priority">>, <<"soon">>, <<"quickly">>}
LowWords == {<<"low", " ", "priority">>, <<"when", " ", "possible">>, <<"eventually">>,
             <<"sometime">>}
TimingWords == {<<"today">>, <<"now">>, <<"this", " ", "morning">>,
                <<"this", " ", "afternoon">>}

\* the tests for the low and the high words in the other order
extractPriorityLowFirst(lowercaseInput) ==
    IF TestWords(lowercaseInput, UrgentWords) THEN urgentP
    ELSE IF TestWords(lowercaseInput, LowWords) THEN lowP
    ELSE IF TestWords(lowercaseInput, HighWords) THEN highP
    ELSE IF TestWords(lowercaseInput, TimingWords) THEN highP
    ELSE mediumP

extractPriority(lowercaseInput) ==
    IF TestWords(lowercaseInput, UrgentWords) THEN urgentP
    ELSE IF TestWords(lowercaseInput, HighWords) THEN highP
    ELSE IF TestWords(lowercaseInput, LowWords) THEN lowP
    ELSE IF TestWords(lowercaseInput, TimingWords) THEN highP
    ELSE mediumP

\* the keyword lists, in the order Object.entries walks them
categories ==
    <<[category |-> workC,
       keywords |-> {<<"work">>, <<"office">>, <<"meeting">>, <<"project">>, <<"client">>,
                     <<"boss">>, <<"colleague">>, <<"deadline">>, <<"presentation">>,
                     <<"report">>}],
      [category |-> personalC,
       keywords |-> {<<"personal">>, <<"home">>, <<"family">>, <<"friend">>,
                     <<"birthday">>, <<"appointment">>, <<"shopping">>, <<"clean">>,
                     <<"organize">>}],
      [category |-> healthC,
       keywords |-> {<<"doctor">>, <<"gym">>, <<"exercise">>, <<"work", "out">>,
                     <<"medicine">>, <<"health">>, <<"medical">>, <<"therapy">>,
                     <<"dentist">>}],
      [category |-> learningC,
       keywords |-> {<<"study">>, <<"learn">>, <<"course">>, <<"book">>, <<"read">>,
                     <<"research">>, <<"tutorial">>, <<"practice">>, <<"home", "work">>}]>>

\* the loop without its return: the last list with a keyword in the input wins
extractCategoryLastMatch(lowercaseInput) ==
    LET hit(k) == \E kw \in categories[k].keywords : includes(lowercaseInput, kw)
        hits == {k \in 1..Len(categories) : hit(k)}
    IN  IF hits = {} THEN otherC
        ELSE categories[CHOOSE k \in hits : \A g \in hits : k >= g].category

extractCategory(lowercaseInput) ==
    LET hit(k) == \E kw \in categories[k].keywords : includes(lowercaseInput, kw)
        hits == {k \in 1..Len(categories) : hit(k)}
    IN  IF hits = {} THEN otherC
        ELSE categories[CHOOSE k \in hits : \A g \in hits : k <= g].category

\* input.match(/<sigil>\w+/g), each match without its first character
RECURSIVE SigilMatches(_, _, _)
SigilMatches(inp, i, sigil) ==
    IF i > Len(inp) THEN <<>>
    ELSE IF inp[i] = sigil /\ WordRun(inp, i + 1) > 0
         THEN <<Str(SubSeq(inp, i + 1, i + WordRun(inp, i + 1)))>>
                  \o SigilMatches(inp, i + 1 + WordRun(inp, i + 1), sigil)
         ELSE SigilMatches(inp, i + 1, sigil)

\* one scan for both sigils: the tokens in the order in which they occur
RECURSIVE EitherSigilMatches(_, _)
EitherSigilMatches(inp, i) ==
    IF i > Len(inp) THEN <<>>
    ELSE IF inp[i] \in {"#", "@"} /\ WordRun(inp, i + 1) > 0
         THEN <<Str(SubSeq(inp, i + 1, i + WordRun(inp, i + 1)))>>
                  \o EitherSigilMatches(inp, i + 1 + WordRun(inp, i + 1))
         ELSE EitherSigilMatches(inp, i + 1)
extractTagsInOneScan(inp) == Arr(EitherSigilMatches(inp, 1))

\* the tags collected into a set: a tag that occurs again is dropped
RECURSIVE WithoutRepeats(_)
WithoutRepeats(q) ==
    IF q = <<>> THEN <<>>
    ELSE IF \E k \in 1..(Len(q) - 1) : q[k] = q[Len(q)]
         THEN WithoutRepeats(SubSeq(q, 1, Len(q) - 1))
         ELSE WithoutRepeats(SubSeq(q, 1, Len(q) - 1)) \o <<q[Len(q)]>>
extractTagsOnce(inp) ==
    Arr(WithoutRepeats(SigilMatches(inp, 1, "#") \o SigilMatches(inp, 1, "@")))

extractTags(inp) == Arr(SigilMatches(inp, 1, "#") \o SigilMatches(inp, 1, "@"))

(***************************************************************************)
(* extractTitle                                                            *)
(***************************************************************************)
\* s.replace(re, '') for a global re: MatchLen(s, i) is the number of units the
\* expression matches when tried at unit i, 0 when it does not match there
ReplaceAll(s, MatchLen(_, _)) ==
    LET rest[i \in 1..(Len(s) + 1)] ==
            IF i > Len(s) THEN <<>>
            ELSE IF MatchLen(s, i) > 0 THEN rest[i + MatchLen(s, i)]
            ELSE <<s[i]>> \o rest[i + 1]
    IN  rest[1]

MonthNames == {"january", "february", "march", "april", "may", "june", "july", "august",
               "september", "october", "november", "december", "jan", "feb", "mar",
               "apr", "jun", "jul", "aug", "sep", "oct", "nov", "dec"}
OrdinalSuffixes == {"st", "nd", "rd", "th"}
DayNames == <<"sunday", "monday", "tuesday", "wednesday", "thursday", "friday",
              "saturday">>
Low(s, i) == IF InText(s, i) THEN LowerUnit(s[i]) ELSE ""

\* the unit after the whitespace that starts at unit i
SkipSpaces(s, i) == i + Spaces(s, i)

\* /\b(by|at|on|before|after|until)\s+\d+\s*(am|pm|:\d+)/gi: i is the
\* preposition, j the number, k the unit after the optional whitespace
ClockTail(s, i, k) ==
    IF Low(s, k) \in {"am", "pm"} THEN k - i + 1
    ELSE IF Low(s, k) = ":" /\ InText(s, k + 1) /\ IsDigits(s[k + 1]) THEN k - i + 2
    ELSE 0
ClockNumber(s, i, j) ==
    IF j > i + 1 /\ InText(s, j) /\ IsDigits(s[j]) THEN ClockTail(s, i, SkipSpaces(s, j + 1))
    ELSE 0
ClockPhraseLen(s, i) ==
    IF Boundary(s, i) /\ Low(s, i) \in {"by", "at", "on", "before", "after", "until"}
    THEN ClockNumber(s, i, SkipSpaces(s, i + 1))
    ELSE 0

\* /\b(by|on|at)\s+\d{1,2}(st|nd|rd|th)?\s+(january|...|dec)\b/gi: k is the
\* unit after the day and its suffix, m the month
OrdinalMonth(s, i, k, m) ==
    IF m > k /\ Low(s, m) \in MonthNames /\ Boundary(s, m + 1) THEN m - i + 1 ELSE 0
OrdinalSuffix(s, i, k) == OrdinalMonth(s, i, k, SkipSpaces(s, k))
OrdinalNumber(s, i, j) ==
    IF j > i + 1 /\ InText(s, j) /\ Digits12(s[j])
    THEN OrdinalSuffix(s, i, IF Low(s, j + 1) \in OrdinalSuffixes THEN j + 2 ELSE j + 1)
    ELSE 0
OrdinalPhraseLen(s, i) ==
    IF Boundary(s, i) /\ Low(s, i) \in {"by", "on", "at"}
    THEN OrdinalNumber(s, i, SkipSpaces(s, i + 1))
    ELSE 0

\* /\b(by|on|at)\s+\d{1,2}\/\d{1,2}(\/\d{4})?\b/gi: j is the first number
SlashNumber(s, i, j) ==
    IF /\ j > i + 1 /\ InText(s, j) /\ Digits12(s[j])
       /\ Low(s, j + 1) = "/" /\ InText(s, j + 2) /\ Digits12(s[j + 2])
    THEN IF /\ Low(s, j + 3) = "/" /\ InText(s, j + 4) /\ FourDigits(s[j + 4])
            /\ Boundary(s, j + 5)
         THEN j + 5 - i
         ELSE IF Boundary(s, j + 3) THEN j + 3 - i ELSE 0
    ELSE 0
SlashPhraseLen(s, i) ==
    IF Boundary(s, i) /\ Low(s, i) \in {"by", "on", "at"}
    THEN SlashNumber(s, i, SkipSpaces(s, i + 1))
    ELSE 0

\* /\b(today|tomorrow|this\s+week|next\s+week)\b/gi: j is the unit after the
\* whitespace that follows unit i
RelativeWeek(s, i, j) ==
    IF j > i + 1 /\ Low(s, j) = "week" /\ Boundary(s, j + 1) THEN j - i + 1 ELSE 0
RelativePhraseLen(s, i) ==
    IF ~Boundary(s, i) THEN 0
    ELSE IF Low(s, i) \in {"today", "tomorrow"} /\ Boundary(s, i + 1) THEN 1
    ELSE IF Low(s, i) \in {"this", "next"} THEN RelativeWeek(s, i, SkipSpaces(s, i + 1))
    ELSE 0

\* /\b(monday|tuesday|wednesday|thursday|friday|saturday|sunday)\b/gi
WeekdayLen(s, i) ==
    IF \E d \in 1..Len(DayNames) : PhraseAt(s, i, <<DayNames[d]>>) THEN 1 ELSE 0

\* new RegExp(`\\b${word}\\b`, 'gi') for each of priorityWords in turn
priorityWords == <<<<"urgent">>, <<"asap">>, <<"critical">>, <<"important">>,
                   <<"high", " ", "priority">>, <<"low", " ", "priority">>>>
PriorityWordLen(s, i, n) ==
    IF PhraseAt(s, i, priorityWords[n]) THEN Len(priorityWords[n]) ELSE 0
Urgent1Len(s, i) == PriorityWordLen(s, i, 1)
Asap2Len(s, i) == PriorityWordLen(s, i, 2)
Critical3Len(s, i) == PriorityWordLen(s, i, 3)
Important4Len(s, i) == PriorityWordLen(s, i, 4)
High5Len(s, i) == PriorityWordLen(s, i, 5)
Low6Len(s, i) == PriorityWordLen(s, i, 6)
RemovePriorityWords(s) ==
    ReplaceAll(ReplaceAll(ReplaceAll(ReplaceAll(ReplaceAll(ReplaceAll(
        s, Urgent1Len), Asap2Len), Critical3Len), Important4Len), High5Len), Low6Len)

\* /#\w+/g and /@\w+/g
HashtagLen(s, i) == IF s[i] = "#" /\ WordRun(s, i + 1) > 0 THEN 1 + WordRun(s, i + 1) ELSE 0
MentionLen(s, i) == IF s[i] = "@" /\ WordRun(s, i + 1) > 0 THEN 1 + WordRun(s, i + 1) ELSE 0

\* s.replace(/\s+/g, ' ')
WhitespaceLen(s, i) == IF s[i] = " " /\ InText(s, i - 1) /\ s[i - 1] = " " THEN 1 ELSE 0
CollapseWhitespace(s) == ReplaceAll(s, WhitespaceLen)

\* title.trim().replace(/\s+/g, ' ') || 'Untitled Task'
\* a title taken as it is left, without `|| 'Untitled Task'`
TitleWithoutDefault(title) == Str(title)

TitleOrDefault(title) == Str(IF title # <<>> THEN title ELSE UntitledTask)

extractTitle(inp) ==
    TitleOrDefault(CollapseWhitespace(trim(
        ReplaceAll(ReplaceAll(RemovePriorityWords(
            ReplaceAll(ReplaceAll(ReplaceAll(ReplaceAll(ReplaceAll(
                inp, ClockPhraseLen), OrdinalPhraseLen), SlashPhraseLen),
                RelativePhraseLen), WeekdayLen)), HashtagLen), MentionLen))))

(***************************************************************************)
(* extractDueDate                                                          *)
(***************************************************************************)
\* the first unit at which a pattern matches, 0 when it matches nowhere
Least(S) == IF S = {} THEN 0 ELSE CHOOSE i \in S : \A g \in S : i <= g
FirstMatch(s, MatchLen(_, _)) == Least({i \in 1..Len(s) : MatchLen(s, i) > 0})

\* /\b(\d{1,2})(?::(\d{2}))?\s*(am|pm)\b/i: k is the unit after the optional
\* minutes and whitespace
TimeMeridiem(s, i, k) ==
    IF Low(s, k) \in {"am", "pm"} /\ Boundary(s, k + 1) THEN k - i + 1 ELSE 0
HasMinutes(s, i) == Low(s, i + 1) = ":" /\ InText(s, i + 2) /\ Digits2(s[i + 2])
TimeLen(s, i) ==
    IF Boundary(s, i) /\ Digits12(s[i])
    THEN TimeMeridiem(s, i, SkipSpaces(s, IF HasMinutes(s, i) THEN i + 3 ELSE i + 1))
    ELSE 0

\* targetHour and targetMinute for timeMatch at unit i (0: no match)
to24Hours(h, meridiem) ==
    IF meridiem = "pm" /\ h # 12 THEN h + 12
    ELSE IF meridiem = "am" /\ h = 12 THEN 0
    ELSE h
timeAt(inp, i) ==
    IF i = 0 THEN [hour |-> 17, minute |-> 0]
    ELSE [hour |-> to24Hours(parseInt(inp[i]), Low(inp, i + TimeLen(inp, i) - 1)),
          minute |-> IF HasMinutes(inp, i) THEN parseInt(inp[i + 2]) ELSE 0]
targetTime(inp) == timeAt(inp, FirstMatch(inp, TimeLen))

monthMap(name) ==
    CASE name \in {"january", "jan"} -> 0
      [] name \in {"february", "feb"} -> 1
      [] name \in {"march", "mar"} -> 2
      [] name \in {"april", "apr"} -> 3
      [] name = "may" -> 4
      [] name \in {"june", "jun"} -> 5
      [] name \in {"july", "jul"} -> 6
      [] name \in {"august", "aug"} -> 7
      [] name \in {"september", "sep"} -> 8
      [] name \in {"october", "oct"} -> 9
      [] name \in {"november", "nov"} -> 10
      [] name \in {"december", "dec"} -> 11

\* /\b(\d{1,2})(st|nd|rd|th)\s+(of\s+)?(january|...|dec)\b/i: j is the unit
\* after the whitespace, m the month
DayMonthName(s, i, j, m) ==
    IF j > i + 2 /\ Low(s, m) \in MonthNames /\ Boundary(s, m + 1) THEN m - i + 1 ELSE 0
DayMonthOf(s, i, j) ==
    DayMonthName(s, i, j,
                 IF /\ Low(s, j) = "of" /\ SkipSpaces(s, j + 1) > j + 1
                    /\ Low(s, SkipSpaces(s, j + 1)) \in MonthNames
                 THEN SkipSpaces(s, j + 1) ELSE j)
DayMonthLen(s, i) ==
    IF Boundary(s, i) /\ Digits12(s[i]) /\ Low(s, i + 1) \in OrdinalSuffixes
    THEN DayMonthOf(s, i, SkipSpaces(s, i + 2))
    ELSE 0

\* /\b(january|...|dec)\s+(\d{1,2})(st|nd|rd|th)?\b/i: j is the number
MonthDayNumber(s, i, j) ==
    IF j > i + 1 /\ InText(s, j) /\ Digits12(s[j])
    THEN IF Low(s, j + 1) \in OrdinalSuffixes /\ Boundary(s, j + 2) THEN j + 2 - i
         ELSE IF Boundary(s, j + 1) THEN j + 1 - i
         ELSE 0
    ELSE 0
MonthDayLen(s, i) ==
    IF Boundary(s, i) /\ Low(s, i) \in MonthNames
    THEN MonthDayNumber(s, i, SkipSpaces(s, i + 1))
    ELSE 0

\* Date.prototype.setFullYear, date-fns addDays, setHours and setMinutes
setFullYear(t, year) == NewDate(year, getMonth(t), getDate(t), getHours(t), getMinutes(t))
addDays(t, n) == t + n * MinutesPerDay
setHours(t, h) == (t \div MinutesPerDay) * MinutesPerDay + h * 60 + getMinutes(t)
setMinutes(t, m) == t - getMinutes(t) + m

Found(date) == [found |-> TRUE, date |-> date]
NotFound == [found |-> FALSE, date |-> 0]
OrElse(r, other) == IF r.found THEN r ELSE other

\* the comparison with now made with <= : a date at this very minute moves too
nextYearIfNotAfter(targetDate, t) ==
    IF targetDate <= t THEN setFullYear(targetDate, getFullYear(t) + 1) ELSE targetDate

\* if (targetDate < now) targetDate.setFullYear(currentYear + 1)
nextYearIfPast(targetDate, t) ==
    IF targetDate < t THEN setFullYear(targetDate, getFullYear(t) + 1) ELSE targetDate

\* one ordinal pattern matched at unit i (0: no match) with this day and month
ordinalMatch(i, day, monthName, t, time) ==
    IF i # 0 /\ day >= 1 /\ day <= 31
    THEN Found(nextYearIfPast(
             NewDate(getFullYear(t), monthMap(monthName), day, time.hour, time.minute), t))
    ELSE NotFound
dayMonthMatch(inp, i, t, time) ==
    IF i = 0 THEN NotFound
    ELSE ordinalMatch(i, parseInt(inp[i]), Low(inp, i + DayMonthLen(inp, i) - 1), t, time)
monthDayMatch(inp, i, t, time) ==
    IF i = 0 THEN NotFound
    ELSE ordinalMatch(i, parseInt(inp[SkipSpaces(inp, i + 1)]), Low(inp, i), t, time)

\* the result of the ordinal patterns: [found, date]
ordinalDate(inp, t, time) ==
    OrElse(dayMonthMatch(inp, FirstMatch(inp, DayMonthLen), t, time),
           monthDayMatch(inp, FirstMatch(inp, MonthDayLen), t, time))

\* /\b(\d{1,2})SEP(\d{1,2})(?:SEP(\d{4}))?\b/ for separator characters seps
NumericLen(s, i, seps) ==
    IF /\ Boundary(s, i) /\ Digits12(s[i])
       /\ Low(s, i + 1) \in seps /\ InText(s, i + 2) /\ Digits12(s[i + 2])
    THEN IF /\ Low(s, i + 3) \in seps /\ InText(s, i + 4) /\ FourDigits(s[i + 4])
            /\ Boundary(s, i + 5)
         THEN 5
         ELSE IF Boundary(s, i + 3) THEN 3 ELSE 0
    ELSE 0
SlashDashLen(s, i) == NumericLen(s, i, {"/", "-"})
DotLen(s, i) == NumericLen(s, i, {"."})

\* isValid(date) && date.getMonth() < 12 && date.getDate() <= 31
acceptsDate(t) == getMonth(t) < 12 /\ getDate(t) <= 31

\* if (date < now && year === currentYear) date.setFullYear(currentYear + 1)
nextYearIfPastThisYear(date, year, t) ==
    IF date < t /\ year = getFullYear(t) THEN setFullYear(date, getFullYear(t) + 1)
    ELSE date

\* for (const date of dates): the first accepted of the two readings
firstAccepted(ddmm, mmdd, year, t) ==
    IF acceptsDate(ddmm) THEN Found(nextYearIfPastThisYear(ddmm, year, t))
    ELSE IF acceptsDate(mmdd) THEN Found(nextYearIfPastThisYear(mmdd, year, t))
    ELSE NotFound
bothReadings(first, second, year, t, time) ==
    firstAccepted(NewDate(year, second - 1, first, time.hour, time.minute),
                  NewDate(year, first - 1, second, time.hour, time.minute), year, t)
numericMatch(inp, i, len, t, time) ==
    IF i = 0 THEN NotFound
    ELSE bothReadings(parseInt(inp[i]), parseInt(inp[i + 2]),
                      IF len = 5 THEN parseInt(inp[i + 4]) ELSE getFullYear(t), t, time)
slashDashMatch(inp, i, t, time) == numericMatch(inp, i, SlashDashLen(inp, i), t, time)
dotMatch(inp, i, t, time) == numericMatch(inp, i, DotLen(inp, i), t, time)

\* the result of the numeric patterns: [found, date]
numericDate(inp, t, time) ==
    OrElse(slashDashMatch(inp, FirstMatch(inp, SlashDashLen), t, time),
           dotMatch(inp, FirstMatch(inp, DotLen), t, time))

TodayWords == {<<"today">>, <<"this", " ", "morning">>, <<"this", " ", "afternoon">>,
               <<"this", " ", "evening">>, <<"tonight">>}
TomorrowWords == {<<"tomorrow">>, <<"tomorrow", " ", "morning">>,
                  <<"tomorrow", " ", "afternoon">>, <<"tomorrow", " ", "evening">>}
ThisWeekWords == {<<"this", " ", "week">>, <<"by", " ", "friday">>,
                  <<"end", " ", "of", " ", "week">>}
NextWeekWords == {<<"next", " ", "week">>}

\* /\bin (\d+) days?\b/i
InDaysLen(s, i) ==
    IF /\ Boundary(s, i) /\ Low(s, i) = "in" /\ Low(s, i + 1) = " "
       /\ InText(s, i + 2) /\ IsDigits(s[i + 2]) /\ Low(s, i + 3) = " "
       /\ Low(s, i + 4) \in {"day", "days"} /\ Boundary(s, i + 5)
    THEN 5
    ELSE 0

\* the date returned with the time of day it happens to have
atItsOwnTime(date, time) == Found(date)

\* setMinutes(setHours(date, targetHour), targetMinute)
atTargetTime(date, time) == Found(setMinutes(setHours(date, time.hour), time.minute))

\* daysUntilFriday > 0 ? daysUntilFriday : 7
daysToFriday(daysUntilFriday) == IF daysUntilFriday > 0 THEN daysUntilFriday ELSE 7

\* the first index i of days whose name stands in the text, 0-based; -1 when none
namedDay(lowercaseInput) ==
    Least({d \in 1..Len(DayNames) : TestWords(lowercaseInput, {<<DayNames[d]>>})}) - 1
\* the test made with < 0: today's own weekday gives today
daysToWeekdayOrToday(daysToAdd) == IF daysToAdd < 0 THEN daysToAdd + 7 ELSE daysToAdd

\* let daysToAdd = targetDay - currentDay; if (daysToAdd <= 0) daysToAdd += 7
daysToWeekday(daysToAdd) == IF daysToAdd <= 0 THEN daysToAdd + 7 ELSE daysToAdd

inDaysMatch(lowercaseInput, i, t, time) ==
    IF i = 0 THEN NotFound
    ELSE atTargetTime(addDays(t, parseInt(lowercaseInput[i + 2])), time)

\* the relative forms on the lower-cased text: [found, date]
relativeLower(lowercaseInput, t, time) ==
    IF TestWords(lowercaseInput, TodayWords) THEN atTargetTime(t, time)
    ELSE IF TestWords(lowercaseInput, TomorrowWords) THEN atTargetTime(addDays(t, 1), time)
    ELSE IF TestWords(lowercaseInput, ThisWeekWords)
         THEN atTargetTime(addDays(t, daysToFriday(5 - getDay(t))), time)
    ELSE IF TestWords(lowercaseInput, NextWeekWords) THEN atTargetTime(addDays(t, 7), time)
    ELSE IF namedDay(lowercaseInput) >= 0
         THEN atTargetTime(
                  addDays(t, daysToWeekday(namedDay(lowercaseInput) - getDay(t))), time)
    ELSE inDaysMatch(lowercaseInput, FirstMatch(lowercaseInput, InDaysLen), t, time)
relativeDate(inp, t, time) == relativeLower(toLowerCase(inp), t, time)

\* the relative forms tried before the numeric ones
firstFoundRelativeFirst(o, n, r) ==
    IF o.found THEN DateOf(o.date)
    ELSE IF r.found THEN DateOf(r.date)
    ELSE IF n.found THEN DateOf(n.date)
    ELSE Undef

\* the date of the first form that resolves one, else undefined
firstFound(o, n, r) ==
    IF o.found THEN DateOf(o.date)
    ELSE IF n.found THEN DateOf(n.date)
    ELSE IF r.found THEN DateOf(r.date)
    ELSE Undef
dueDateAt(inp, t, time) ==
    firstFound(ordinalDate(inp, t, time), numericDate(inp, t, time),
               relativeDate(inp, t, time))

\* extractDueDate(input) when the clock reads t
extractDueDate(inp, t) == dueDateAt(inp, t, targetTime(inp))

\* fallbackParse(input) when the clock reads t
fallbackFields(inp, lowercaseInput, t) ==
    Obj([title |-> extractTitle(inp),
         description |-> extractDescription(inp),
         priority |-> extractPriority(lowercaseInput),
         category |-> extractCategory(lowercaseInput),
         dueDate |-> extractDueDate(inp, t),
         tags |-> extractTags(inp)])
fallbackParse(inp, t) == fallbackFields(inp, toLowerCase(inp), t)

(***************************************************************************)
(* AITaskParser.parse                                                      *)
(***************************************************************************)
MaxPhrases == 2

\* what a user may type: up to MaxPhrases of these, separated by one space
Phrases ==
    {<<" ">>, <<"xyzzy">>, <<"Call", " ", "client">>, <<"Urgent">>,
     <<"low", " ", "priority">>, <<"tomorrow">>, <<"at", " ", "3", ":", "30", " ", "PM">>,
     <<"by", " ", "25", "th", " ", "June">>, <<"#", "work">>, <<"@", "bob">>,
     <<"notes", ":", " ", "bring", " ", "id">>}

RECURSIVE JoinedTexts(_)
JoinedTexts(n) ==
    IF n = 0 THEN {<<>>}
    ELSE LET shorter == JoinedTexts(n - 1)
         IN  shorter \cup {IF t = <<>> THEN p ELSE t \o <<" ">> \o p :
                              t \in shorter, p \in Phrases}
Inputs == JoinedTexts(MaxPhrases)

\* the clock readings studied: Sunday 2025-06-01 09:00 and Saturday 2025-12-20 18:30
NowValues == {NewDate(2025, 5, 1, 9, 0), NewDate(2025, 11, 20, 18, 30)}

\* JSON values the model may answer with
ModelReplies ==
    {Null, Num(42), Str(<<"hello">>), Arr(<<>>), ObjOf(<<>>),
     ObjOf([priority |-> urgentP, tags |-> Arr(<<Str(<<"bob">>)>>)]),
     ObjOf([title |-> Str(<<" ", " ">>), priority |-> lowP]),
     ObjOf([title |-> Str(<<" ", "Buy", " ", "milk", " ">>), priority |-> Str(<<"banana">>),
            category |-> Num(42), dueDate |-> Str(<<"2025", "-", "13", "-", "40">>),
            tags |-> Arr(<<Str(<<"shop">>), Num(42)>>)]),
     ObjOf([title |-> Str(<<"Buy", " ", "milk">>),
            description |-> Str(<<"two", " ", "litres">>), priority |-> highP,
            category |-> personalC,
            dueDate |-> Str(<<"2025", "-", "06", "-", "25", "T", "17", ":", "00">>),
            tags |-> Arr(<<>>)])}

\* an initialize() that builds a client whether or not a key is configured
initializeWithoutKeyTest(client, initialized, key) ==
    IF initialized THEN [openai |-> client, isInitialized |-> TRUE, built |-> 0]
    ELSE [openai |-> "client", isInitialized |-> TRUE, built |-> 1]

\* an initialize() without its isInitialized test: every call builds anew
initializeEveryCall(client, initialized, key) ==
    [openai |-> IF key THEN "client" ELSE "null", isInitialized |-> TRUE,
     built |-> IF key THEN 1 ELSE 0]

\* initialize(): the static fields after the call, and whether a client was built
initialize(client, initialized, key) ==
    IF initialized THEN [openai |-> client, isInitialized |-> TRUE, built |-> 0]
    ELSE [openai |-> IF key THEN "client" ELSE "null", isInitialized |-> TRUE,
          built |-> IF key THEN 1 ELSE 0]

\* the try block after the await: the value it returns, or that it threw
\* the outcome of a try block that threw
Threw == [threw |-> TRUE, value |-> NoValue]

\* a try block that reads content which is no JSON as the empty object
tryBlockLenient(resp) ==
    CASE resp.kind = "error" -> Threw
      [] resp.kind = "empty" -> Threw
      [] resp.kind = "text" ->
            [threw |-> FALSE, value |-> validateAndCleanParsedTask(ObjOf(<<>>))]
      [] resp.kind = "json" ->
            IF NormalizerThrows(resp.value) THEN Threw
            ELSE [threw |-> FALSE, value |-> validateAndCleanParsedTask(resp.value)]

tryBlock(resp) ==
    CASE resp.kind = "error" -> Threw      \* the awaited request rejected
      [] resp.kind = "empty" -> Threw      \* no content: throw new Error(...)
      [] resp.kind = "text" -> Threw       \* JSON.parse raises a SyntaxError
      [] resp.kind = "json" ->
            IF NormalizerThrows(resp.value) THEN Threw
            ELSE [threw |-> FALSE, value |-> validateAndCleanParsedTask(resp.value)]

\* parse without its catch block: what the try block threw rejects the call
settleWithoutCatch(attempt, inp, t, sent) ==
    IF attempt.threw
    THEN [state |-> "rejected", value |-> NoValue, via |-> "none", requests |-> sent]
    ELSE [state |-> "fulfilled", value |-> attempt.value,
          via |-> "validateAndCleanParsedTask", requests |-> sent]

\* a catch block that hands the rule-based result to the normalizer
settleNormalizingFallback(attempt, inp, t, sent) ==
    IF attempt.threw
    THEN [state |-> "fulfilled",
          value |-> validateAndCleanParsedTask(fallbackParse(inp, t)),
          via |-> "fallbackParse", requests |-> sent]
    ELSE [state |-> "fulfilled", value |-> attempt.value,
          via |-> "validateAndCleanParsedTask", requests |-> sent]

\* a catch block that sends the request once more before falling back
settleWithRetry(attempt, inp, t, sent) ==
    IF attempt.threw /\ sent = 1
    THEN [state |-> "awaiting", value |-> NoValue, via |-> "none", requests |-> sent + 1]
    ELSE IF attempt.threw
    THEN [state |-> "fulfilled", value |-> fallbackParse(inp, t), via |-> "fallbackParse",
          requests |-> sent]
    ELSE [state |-> "fulfilled", value |-> attempt.value,
          via |-> "validateAndCleanParsedTask", requests |-> sent]

\* how the call settles: return result in the try block, or the catch block
settle(attempt, inp, t, sent) ==
    IF attempt.threw
    THEN [state |-> "fulfilled", value |-> fallbackParse(inp, t), via |-> "fallbackParse",
          requests |-> sent]
    ELSE [state |-> "fulfilled", value |-> attempt.value,
          via |-> "validateAndCleanParsedTask", requests |-> sent]

Init ==
    /\ apiKey \in BOOLEAN
    /\ openai = "null" /\ isInitialized = FALSE /\ clientsBuilt = 0
    /\ pc = "idle" /\ input = <<>> /\ now \in NowValues
    /\ requests = 0 /\ response = NoValue /\ result = NoValue /\ via = "none"
    /\ cand = NoValue /\ once = NoValue /\ twice = NoValue /\ stage = 0
    /\ AppIdle

Initialized(st) ==
    /\ openai' = st.openai
    /\ isInitialized' = st.isInitialized
    /\ clientsBuilt' = clientsBuilt + st.built

\* parse(input) up to its return when there is no client
ParseWithoutClient(inp) ==
    LET st == initialize(openai, isInitialized, apiKey)
    IN  /\ pc = "idle" /\ st.openai = "null"
        /\ Initialized(st)
        /\ input' = inp /\ requests' = 0 /\ response' = NoValue
        /\ result' = fallbackParse(inp, now) /\ via' = "fallbackParse"
        /\ pc' = "fulfilled"
        /\ UNCHANGED <<apiKey, now, normVars, appVars>>

\* parse(input) up to the await of chat.completions.create
ParseWithClient(inp) ==
    LET st == initialize(openai, isInitialized, apiKey)
    IN  /\ pc = "idle" /\ st.openai # "null"
        /\ Initialized(st)
        /\ input' = inp /\ requests' = 1 /\ response' = NoValue
        /\ result' = NoValue /\ via' = "none"
        /\ pc' = "awaiting"
        /\ UNCHANGED <<apiKey, now, normVars, appVars>>

\* the rest of parse(input) once the awaited request has ended as resp
Resume(resp) ==
    /\ response' = resp
    /\ \E o \in {settle(tryBlock(resp), input, now, requests)} :
          /\ pc' = o.state /\ result' = o.value /\ via' = o.via
          /\ requests' = o.requests
    /\ UNCHANGED <<apiKey, openai, isInitialized, clientsBuilt, input, now, normVars, appVars>>

\* chat.completions.create rejects: a transport or service error
RequestFails ==
    /\ pc = "awaiting"
    /\ Resume([kind |-> "error", value |-> NoValue])

\* the response has no choices[0].message.content
ReplyWithoutContent ==
    /\ pc = "awaiting"
    /\ Resume([kind |-> "empty", value |-> NoValue])

\* the content is text that JSON.parse rejects
ReplyNotJson ==
    /\ pc = "awaiting"
    /\ Resume([kind |-> "text", value |-> NoValue])

\* the content is the JSON text of v
ReplyJson ==
    /\ pc = "awaiting"
    /\ \E v \in ModelReplies : Resume([kind |-> "json", value |-> v])

\* the caller has taken the result; the next call may start
Return ==
    /\ pc \in {"fulfilled", "rejected"}
    /\ pc' = "idle" /\ input' = <<>> /\ requests' = 0
    /\ response' = NoValue /\ result' = NoValue /\ via' = "none"
    /\ UNCHANGED <<apiKey, openai, isInitialized, clientsBuilt, now, normVars, appVars>>

Next ==
    \/ \E inp \in Inputs : ParseWithoutClient(inp)
    \/ \E inp \in Inputs : ParseWithClient(inp)
    \/ RequestFails
    \/ ReplyWithoutContent
    \/ ReplyNotJson
    \/ ReplyJson
    \/ Return

Spec == Init /\ [][Next]_vars

(***************************************************************************)
(* fallbackParse applied to one input at one clock reading                 *)
(***************************************************************************)
\* texts of up to n of the phrases P, separated by one space
RECURSIVE Joined(_, _)
Joined(P, n) ==
    IF n = 0 THEN {<<>>}
    ELSE Joined(P, n - 1) \cup
            {IF t = <<>> THEN p ELSE t \o <<" ">> \o p : t \in Joined(P, n - 1), p \in P}

\* Sunday 2025-06-01 09:00
Sunday0900 == NewDate(2025, 5, 1, 9, 0)

\* inputs that hold nothing the extractors look for
MaxWords == 3
NeutralInputs == Joined({<<" ">>, <<"xyzzy">>, <<"Plugh">>, <<"42">>}, MaxWords)

\* inputs made of hashtags, mentions, a bare sigil and a plain word
MaxTokens == 3
TagInputs ==
    Joined({<<"#", "work">>, <<"@", "bob">>, <<"#", "home">>, <<"#", "work", "@", "bob">>,
            <<"#">>, <<"about">>}, MaxTokens)

\* inputs made of priority keywords of every class, near misses and a plain word
MaxKeywords == 2
PriorityInputs ==
    Joined({<<"Urgent">>, <<"now">>, <<"important">>, <<"high", " ", "priority">>,
            <<"low", " ", "priority">>, <<"eventually">>, <<"today">>,
            <<"this", " ", "morning">>, <<"urgently">>, <<"high">>, <<"task">>},
           MaxKeywords)
        \cup {<<"urgent", " ", "but", " ", "low", " ", "priority", " ", "task">>,
              <<"low", " ", "priority", " ", "task", " ", "but", " ", "urgent">>}

\* clock expressions with the time of day they name, and no expression (17:00)
NoClock == [text |-> <<>>, hour |-> 17, minute |-> 0]
ClockCases ==
    {NoClock,
     [text |-> <<"at", " ", "3", ":", "30", " ", "PM">>, hour |-> 15, minute |-> 30],
     [text |-> <<"6", "am">>, hour |-> 6, minute |-> 0],
     [text |-> <<"12", "am">>, hour |-> 0, minute |-> 0],
     [text |-> <<"12", " ", "pm">>, hour |-> 12, minute |-> 0]}
\* 13 pm, which the time pattern accepts: 12 hours past 13 o'clock
LateClock == [text |-> <<"at", " ", "13", "pm">>, hour |-> 25, minute |-> 0]

\* ordinal and month-name dates with the day and the month (1..12) written
OrdinalCases ==
    {[text |-> <<"25", "th", " ", "June">>, day |-> 25, month |-> 6],
     [text |-> <<"5", "th", " ", "of", " ", "jan">>, day |-> 5, month |-> 1],
     [text |-> <<"june", " ", "25">>, day |-> 25, month |-> 6],
     [text |-> <<"feb", " ", "29", "th">>, day |-> 29, month |-> 2],
     [text |-> <<"31", "st", " ", "dec">>, day |-> 31, month |-> 12],
     [text |-> <<"31", "st", " ", "june">>, day |-> 31, month |-> 6]}
\* a month name with a day that is none
NoOrdinal == <<"june", " ", "40">>

\* numeric dates A sep B [sep year]; year 0: none written
NumericCases ==
    {[text |-> <<"25", "/", "6">>, a |-> 25, b |-> 6, year |-> 0],
     [text |-> <<"6", "/", "25">>, a |-> 6, b |-> 25, year |-> 0],
     [text |-> <<"5", "/", "6">>, a |-> 5, b |-> 6, year |-> 0],
     [text |-> <<"12", "-", "31">>, a |-> 12, b |-> 31, year |-> 0],
     [text |-> <<"25", ".", "12", ".", "2026">>, a |-> 25, b |-> 12, year |-> 2026],
     [text |-> <<"6", "-", "25", "-", "2024">>, a |-> 6, b |-> 25, year |-> 2024]}

ThisWeekTexts == {<<"this", " ", "week">>, <<"by", " ", "friday">>,
                  <<"end", " ", "of", " ", "week">>}
\* weekday names with their number, Sunday being 0
WeekdayCases ==
    {[text |-> <<"sunday">>, day |-> 0], [text |-> <<"monday">>, day |-> 1],
     [text |-> <<"tuesday">>, day |-> 2], [text |-> <<"wednesday">>, day |-> 3],
     [text |-> <<"thursday">>, day |-> 4], [text |-> <<"Friday">>, day |-> 5],
     [text |-> <<"saturday">>, day |-> 6]}
OtherRelativeTexts ==
    {<<"today">>, <<"tonight">>, <<"tomorrow">>, <<"next", " ", "week">>,
     <<"in", " ", "3", " ", "days">>}

\* one phrase of each date form with its place in the order of the forms;
\* place 0: a phrase that resolves no date
FormCases ==
    {[text |-> <<"25", "th", " ", "June">>, place |-> 1],
     [text |-> NoOrdinal, place |-> 0],
     [text |-> <<"5", "/", "6">>, place |-> 2],
     [text |-> <<"today">>, place |-> 3],
     [text |-> <<"tomorrow">>, place |-> 4],
     [text |-> <<"this", " ", "week">>, place |-> 5],
     [text |-> <<"next", " ", "week">>, place |-> 6],
     [text |-> <<"monday">>, place |-> 7],
     [text |-> <<"in", " ", "3", " ", "days">>, place |-> 8]}

Then(a, b) == IF a = <<>> THEN b ELSE IF b = <<>> THEN a ELSE a \o <<" ">> \o b
DateTexts ==
    {c.text : c \in OrdinalCases \cup NumericCases \cup WeekdayCases}
        \cup {NoOrdinal} \cup ThisWeekTexts \cup OtherRelativeTexts
DateInputs ==
    {Then(<<"pay">>, Then(d, c.text)) : d \in DateTexts, c \in ClockCases \cup {LateClock}}
        \cup {Then(a.text, b.text) : a, b \in FormCases}

\* the clock readings: 09:00 on each day of the week from Sunday 2025-06-01,
\* a day late in the year, a day after February in a leap year, and the
\* very minute that "25th June" names
WeekNows == {Sunday0900 + k * MinutesPerDay : k \in 0..6}
DateNows ==
    WeekNows \cup {NewDate(2025, 11, 20, 18, 30), NewDate(2024, 2, 15, 10, 0),
                   NewDate(2025, 5, 25, 17, 0)}

\* inputs made of category keywords: each keyword alone, and texts of keywords
\* of several lists in every order
KeywordInputs == UNION {categories[k].keywords : k \in 1..Len(categories)}
CategoryInputs ==
    KeywordInputs \cup
        Joined({<<"client">>, <<"Meeting">>, <<"home">>, <<"gym">>, <<"study">>,
                <<"work", "out">>, <<"home", "work">>, <<"xyzzy">>}, MaxKeywords)

\* inputs of the form <words> <preposition> <clock time>
TitleWords == {<<"Call", " ", "client">>, <<"xyzzy">>}
PrefixedClocks ==
    {<<"at", " ", "3", ":", "30", " ", "PM">>, <<"by", " ", "6", "am">>,
     <<"until", " ", "12", " ", "pm">>, <<"before", " ", "5", ":", "00", "pm">>}
TitleInputs == {Then(w, c) : w \in TitleWords, c \in PrefixedClocks}

RuleCases ==
    [inp : NeutralInputs, t : {Sunday0900, NewDate(2025, 11, 20, 18, 30)}]
        \cup [inp : TagInputs, t : {Sunday0900}]
        \cup [inp : PriorityInputs, t : {Sunday0900}]
        \cup [inp : DateInputs, t : DateNows]
        \cup [inp : CategoryInputs, t : {Sunday0900}]
        \cup [inp : TitleInputs, t : {Sunday0900}]

InitRules ==
    /\ apiKey = FALSE /\ openai = "null" /\ isInitialized = FALSE
    /\ clientsBuilt = 0 /\ pc = "idle"
    /\ requests = 0 /\ response = NoValue /\ result = NoValue /\ via = "none"
    /\ cand = NoValue /\ once = NoValue /\ twice = NoValue /\ stage = 0
    /\ AppIdle
    /\ \E c \in RuleCases : input = c.inp /\ now = c.t

\* fallbackParse(input), called at the clock reading now
Extract ==
    /\ stage = 0
    /\ result' = fallbackParse(input, now)
    /\ via' = "fallbackParse"
    /\ stage' = 1
    /\ UNCHANGED <<apiKey, openai, isInitialized, clientsBuilt, pc, input, now,
                   requests, response, cand, once, twice, appVars>>

NextRules == Extract
SpecRules == InitRules /\ [][NextRules]_vars

(***************************************************************************)
(* Properties of the normalizer (checked under SpecNorm)                   *)
(***************************************************************************)
PriorityNames == {"low", "medium", "high", "urgent"}
CategoryNames == {"work", "personal", "health", "learning", "other"}
IsOneOf(x, names) == x.type = "string" /\ Len(x.v) = 1 /\ x.v[1] \in names
CoercedTo(out, given, names, default) ==
    /\ IsOneOf(out, names)
    /\ IsOneOf(given, names) => out = given
    /\ ~IsOneOf(given, names) => out = Str(<<default>>)

\* C8: the normalizer's result always has a priority among low, medium, high,
\* urgent and a category among work, personal, health, learning, other; a
\* candidate value that is one of these is kept, anything else (a missing
\* field, another word, another case, a number) becomes medium, resp. other.
C8_EnumsCoerced ==
    stage \in {1, 2} =>
        /\ CoercedTo(once.v.priority, Get(cand, "priority"), PriorityNames, "medium")
        /\ CoercedTo(once.v.category, Get(cand, "category"), CategoryNames, "other")

\* an unrecognized priority word and a numeric category have been coerced
C8_Witness ==
    /\ stage = 1
    /\ Get(cand, "priority") = Str(<<"banana">>)
    /\ Get(cand, "category") = Num(42)
    /\ once.v.priority = Str(<<"medium">>)
    /\ once.v.category = Str(<<"other">>)

\* C9 (as the specification states it): normalizing a normalized task gives
\* the same task back, its due date included.
C9_Idempotent == stage = 2 => twice = once

\* the text has the widths of YYYY-MM-DD or YYYY-MM-DDTHH:mm
IsoWidths(s) ==
    /\ Len(s) \in {5, 9}
    /\ FourDigits(s[1]) /\ s[2] = "-" /\ TwoDigits(s[3]) /\ s[4] = "-" /\ TwoDigits(s[5])
    /\ Len(s) = 9 => s[6] = "T" /\ TwoDigits(s[7]) /\ s[8] = ":" /\ TwoDigits(s[9])
WrittenHours(s) == IF Len(s) = 9 THEN parseInt(s[7]) ELSE 0
WrittenMinutes(s) == IF Len(s) = 9 THEN parseInt(s[9]) ELSE 0
\* the day written exists in the calendar: counting its days and converting
\* the count back gives the same year, month and day
DayExists(y, m, d) == CivilFromDays(DaysFromCivil(y, m, d)) = [y |-> y, m |-> m, d |-> d]
ValidPoint(x) ==
    /\ x.type = "string" /\ IsoWidths(x.v)
    /\ DayExists(parseInt(x.v[1]), parseInt(x.v[3]), parseInt(x.v[5]))
    /\ WrittenHours(x.v) < 24 /\ WrittenMinutes(x.v) < 60
ShowsPoint(d, s) ==
    /\ d.type = "date" /\ d.valid
    /\ getFullYear(d.t) = parseInt(s[1])
    /\ getMonth(d.t) + 1 = parseInt(s[3])
    /\ getDate(d.t) = parseInt(s[5])
    /\ getHours(d.t) = WrittenHours(s)
    /\ getMinutes(d.t) = WrittenMinutes(s)

\* C10: the normalizer turns a dueDate that is the ISO-8601 text of an
\* existing calendar point into the timestamp of that point, and a dueDate
\* that is missing, null, empty, no string, no ISO text, or the text of a day
\* or time that does not exist into an absent due date; the due date alone
\* never makes it throw (it throws only when the candidate itself is null).
C10_DueDateParsed ==
    /\ stage = 3 => cand = Null
    /\ stage \in {1, 2} =>
          IF ValidPoint(Get(cand, "dueDate"))
          THEN ShowsPoint(once.v.dueDate, Get(cand, "dueDate").v)
          ELSE once.v.dueDate = Undef

\* a date with a time of day has been parsed to its timestamp
C10_Witness ==
    /\ stage = 1
    /\ Get(cand, "dueDate") =
          Str(<<"2025", "-", "06", "-", "25", "T", "17", ":", "00">>)
    /\ once.v.dueDate = DateOf(NewDate(2025, 5, 25, 17, 0))

(***************************************************************************)
(* Properties of parse (checked under Spec)                                *)
(***************************************************************************)
TaskFields == {"title", "description", "priority", "category", "dueDate", "tags"}
IsParsedTask(r) ==
    /\ r.type = "object" /\ DOMAIN r.v = TaskFields
    /\ r.v.title.type = "string"
    /\ r.v.description.type \in {"string", "undefined"}
    /\ IsOneOf(r.v.priority, PriorityNames)
    /\ IsOneOf(r.v.category, CategoryNames)
    /\ r.v.dueDate.type \in {"date", "undefined"}
    /\ r.v.tags.type = "array"
    /\ \A i \in 1..Len(r.v.tags.v) : r.v.tags.v[i].type = "string"

\* C1: parse never rejects: whatever the input (empty and whitespace-only
\* included), whether or not a client exists, and however the request ends,
\* the call is never left rejected, and a call that has settled holds a
\* ParsedTask of the declared shape.
C1_ParseTotal ==
    /\ pc \in {"idle", "awaiting", "fulfilled"}
    /\ pc = "fulfilled" => IsParsedTask(result)

\* a whitespace-only input whose request was answered with JSON null
C1_Witness ==
    /\ pc = "fulfilled" /\ input = <<" ">>
    /\ response = [kind |-> "json", value |-> Null]
    /\ IsParsedTask(result)

FailureKinds == {"error", "empty", "text"}

\* C2: when the request fails, the reply has no content, or the content is
\* no JSON, the call is fulfilled with exactly the task the rule-based
\* extractor builds from the same input at the same time; for "Urgent" that
\* is a task of priority urgent with the default title.
C2_FailureFallsBack ==
    (pc = "fulfilled" /\ response # NoValue /\ response.kind \in FailureKinds) =>
        /\ result = fallbackParse(input, now)
        /\ input = <<"Urgent">> =>
              /\ result.v.priority = Str(<<"urgent">>)
              /\ result.v.title = Str(<<"Untitled", " ", "Task">>)

\* the content was no JSON and the rule-based result came back
C2_Witness ==
    /\ pc = "fulfilled" /\ requests = 1
    /\ response.kind = "text"
    /\ input = <<"Call", " ", "client", " ", "tomorrow">>
    /\ result.v.title = Str(<<"Call", " ", "client">>)
    /\ result.v.dueDate.type = "date"

RequiredShape(v) == v.type = "object" /\ Get(v, "title").type = "string"

\* C3 (as the specification states it): a reply that is valid JSON but no
\* object of the required shape (a number, a string, an array, null, an
\* empty object, an object without a title) gives the rule-based result.
C3_WrongShapeFallsBack ==
    (pc = "fulfilled" /\ response # NoValue /\ response.kind = "json"
        /\ ~RequiredShape(response.value)) =>
        result = fallbackParse(input, now)

\* the candidate the call obtained: the model's value or the rule-based task
Candidate ==
    IF via = "fallbackParse" THEN fallbackParse(input, now) ELSE response.value

C5_NoKeyNoRequest ==
    ~apiKey =>
        /\ openai = "null" /\ clientsBuilt = 0
        /\ requests = 0 /\ pc # "awaiting" /\ response = NoValue
        /\ pc = "fulfilled" => (via = "fallbackParse" /\ result = fallbackParse(input, now))

\* a call has returned without a key
C5_Witness ==
    /\ ~apiKey /\ isInitialized /\ pc = "fulfilled"
    /\ input = <<"xyzzy">> /\ requests = 0
    /\ result.v.title = Str(<<"xyzzy">>)

\* C6: one parse sends at most one request: a request that is awaited ends
\* the call when it ends, without a second request, and a request that ends
\* in a failure is followed at once by the rule-based result.
C6_AtMostOneRequest ==
    [][/\ requests' <= 1
       /\ pc = "awaiting" =>
             /\ pc' \in {"awaiting", "fulfilled"}
             /\ requests' = requests
             /\ pc' = "fulfilled" /\ response'.kind \in FailureKinds =>
                   via' = "fallbackParse"]_vars

\* a failed request was followed by the rule-based result, one request sent
C6_Witness ==
    /\ pc = "fulfilled" /\ requests = 1
    /\ response = [kind |-> "error", value |-> NoValue]
    /\ via = "fallbackParse"

IsBlank(x) == x = Undef \/ (x.type = "string" /\ trim(x.v) = <<>>)

\* C7 (as the specification states it): the title of a returned task is a
\* non-empty string, and it is "Untitled Task" whenever the extraction or
\* the model's candidate gives an empty or whitespace-only title.
C7_TitleNonEmpty ==
    pc = "fulfilled" =>
        /\ result.v.title.type = "string" /\ result.v.title.v # <<>>
        /\ (via = "validateAndCleanParsedTask" /\ IsBlank(Get(response.value, "title"))) =>
              result.v.title = Str(<<"Untitled", " ", "Task">>)

(***************************************************************************)
(* Properties of the rule-based extractors (checked under SpecRules)       *)
(***************************************************************************)
Extracted == stage = 1 /\ via = "fallbackParse" /\ pc = "idle"

\* units in which the extractors recognize nothing
NeutralUnits == {" ", "xyzzy", "Plugh", "42"}
IsNeutral(s) == \A i \in 1..Len(s) : s[i] \in NeutralUnits
IsBlankText(s) == \A i \in 1..Len(s) : s[i] = " "

\* C11: for the empty input and for an input without any keyword, date
\* expression, hashtag or mention, the rule-based task has priority medium,
\* category other, no due date and no tags; its title is "Untitled Task" when
\* the input is empty or blank, and otherwise begins and ends with a word.
C11_NothingRecognized ==
    (Extracted /\ IsNeutral(input)) =>
        /\ result.v.priority = Str(<<"medium">>)
        /\ result.v.category = Str(<<"other">>)
        /\ result.v.dueDate = Undef
        /\ result.v.tags = Arr(<<>>)
        /\ result.v.description = Undef
        /\ IsBlankText(input) => result.v.title = Str(<<"Untitled", " ", "Task">>)
        /\ ~IsBlankText(input) =>
              /\ result.v.title.v # <<>>
              /\ Head(result.v.title.v) # " "
              /\ result.v.title.v[Len(result.v.title.v)] # " "

\* the empty input has given the task of all defaults
C11_Witness ==
    /\ Extracted /\ input = <<>>
    /\ result.v.title = Str(<<"Untitled", " ", "Task">>)
    /\ result.v.priority = Str(<<"medium">>)
    /\ result.v.dueDate = Undef

\* the #word and @word tokens of a text, in the order in which they occur
RECURSIVE Tokens(_, _)
Tokens(s, i) ==
    IF i >= Len(s) THEN <<>>
    ELSE IF s[i] \in {"#", "@"} /\ IsWordUnit(s[i + 1])
         THEN <<[sigil |-> s[i], word |-> s[i + 1]]>> \o Tokens(s, i + 2)
         ELSE Tokens(s, i + 1)
WordsOf(toks) == [k \in 1..Len(toks) |-> Str(<<toks[k].word>>)]
WithSigil(toks, sigil) == SelectSeq(toks, LAMBDA t : t.sigil = sigil)
Occurrences(q, x) == Cardinality({k \in 1..Len(q) : q[k] = x})
MentionBeforeHashtag(toks) ==
    \E j, k \in 1..Len(toks) : j < k /\ toks[j].sigil = "@" /\ toks[k].sigil = "#"

\* C12 (as the specification states it): the tags are the hashtag and
\* mention tokens in the order in which they occur in the input, duplicates
\* kept: #work @bob #work gives [work, bob, work].
C12_TagsInInputOrder ==
    Extracted => result.v.tags = Arr(WordsOf(Tokens(input, 1)))

\* C12 (amended): every token occurrence is kept, a repeated one as often as
\* it occurs; the tags stand in the order of the input when no mention
\* stands before a hashtag, and otherwise a hashtag comes first although a
\* mention stands first in the input: #work @bob #work gives [work, work, bob].
C12_TagsKeptNotInInputOrder ==
    Extracted =>
        /\ \A k \in 1..Len(Tokens(input, 1)) :
              Occurrences(result.v.tags.v, WordsOf(Tokens(input, 1))[k])
                  = Occurrences(WordsOf(Tokens(input, 1)), WordsOf(Tokens(input, 1))[k])
        /\ ~MentionBeforeHashtag(Tokens(input, 1)) =>
              result.v.tags.v = WordsOf(Tokens(input, 1))
        /\ MentionBeforeHashtag(Tokens(input, 1)) =>
              result.v.tags.v[1] = WordsOf(WithSigil(Tokens(input, 1), "#"))[1]
        /\ input = <<"#", "work", " ", "@", "bob", " ", "#", "work">> =>
              result.v.tags.v = <<Str(<<"work">>), Str(<<"work">>), Str(<<"bob">>)>>

\* #work @bob #work has been read
C12_Witness ==
    /\ Extracted
    /\ input = <<"#", "work", " ", "@", "bob", " ", "#", "work">>
    /\ Len(result.v.tags.v) = 3
    /\ result.v.tags.v[3] = Str(<<"bob">>)

\* C13: the tags are the hashtags in input order followed by the mentions
\* in input order, each without its sigil, and there are as many tags as
\* there are hashtag and mention occurrences in the input.
C13_HashtagsThenMentions ==
    Extracted =>
        /\ result.v.tags.v = WordsOf(WithSigil(Tokens(input, 1), "#"))
                                 \o WordsOf(WithSigil(Tokens(input, 1), "@"))
        /\ Len(result.v.tags.v) = Len(Tokens(input, 1))

\* two mentions and a hashtag between them: the hashtag has come first
C13_Witness ==
    /\ Extracted
    /\ input = <<"@", "bob", " ", "#", "home", " ", "@", "bob">>
    /\ result.v.tags.v = <<Str(<<"home">>), Str(<<"bob">>), Str(<<"bob">>)>>

UrgentClass == {<<"urgent">>, <<"asap">>, <<"critical">>, <<"emergency">>, <<"now">>}
HighClass == {<<"important">>, <<"high", " ", "priority">>, <<"soon">>, <<"quickly">>}
LowClass == {<<"low", " ", "priority">>, <<"when", " ", "possible">>, <<"eventually">>,
             <<"sometime">>}
ImmediacyClass == {<<"today">>, <<"this", " ", "morning">>, <<"this", " ", "afternoon">>}
\* some phrase of the class stands somewhere in the text, whatever the case
Has(s, class) ==
    \E p \in class : \E i \in 1..Len(s) :
        /\ i + Len(p) - 1 <= Len(s)
        /\ SubSeq(toLowerCase(s), i, i + Len(p) - 1) = p
ByPrecedence(s) ==
    IF Has(s, UrgentClass) THEN "urgent"
    ELSE IF Has(s, HighClass) THEN "high"
    ELSE IF Has(s, LowClass) THEN "low"
    ELSE IF Has(s, ImmediacyClass) THEN "high"
    ELSE "medium"

\* C14: the rule-based priority depends only on which keywords the input
\* holds, not on where: urgent if it holds an urgent-class word, else high
\* if it holds a high-class word, else low if it holds a low-class word,
\* else high if it holds today, this morning or this afternoon, else medium.
C14_PriorityPrecedence ==
    Extracted => result.v.priority = Str(<<ByPrecedence(input)>>)

\* the low-class phrase stands first and the urgent word last: urgent
C14_Witness ==
    /\ Extracted
    /\ input = <<"low", " ", "priority", " ", "task", " ", "but", " ", "urgent">>
    /\ result.v.priority = Str(<<"urgent">>)

DayCount(t) == t \div MinutesPerDay
HasDue == result.v.dueDate.type = "date"
Due == result.v.dueDate.t
DaysAhead == DayCount(Due) - DayCount(now)
Pay(date, clock) == Then(<<"pay">>, Then(date, clock))

\* the year chosen for a date that reads thisYear when built in the year of now
YearRule(due, thisYear) ==
    /\ thisYear >= now => due = thisYear
    /\ thisYear < now =>
          /\ getFullYear(due) = getFullYear(thisYear) + 1
          /\ DayCount(due) - DayCount(thisYear) \in {365, 366}
          /\ getHours(due) = getHours(thisYear) /\ getMinutes(due) = getMinutes(thisYear)
    /\ due >= now
    /\ getFullYear(due) <= getFullYear(now) + 1

\* C15: an ordinal or month-name date with a day in 1..31 is built in the
\* year of now and kept if it is not before now (the very minute of now is
\* kept); if it is before now it is moved to the next year, once; so the
\* result is never before now and never later than the next year.
C15_OrdinalYear ==
    Extracted =>
        \A c \in OrdinalCases : \A k \in ClockCases :
            input = Pay(c.text, k.text) =>
                /\ HasDue
                /\ YearRule(Due, NewDate(getFullYear(now), c.month - 1, c.day,
                                         k.hour, k.minute))

\* on 2025-12-20 the 5th of January is that of 2026
C15_Witness ==
    /\ Extracted /\ now = NewDate(2025, 11, 20, 18, 30)
    /\ input = <<"pay", " ", "5", "th", " ", "of", " ", "jan">>
    /\ result.v.dueDate = DateOf(NewDate(2026, 0, 5, 17, 0))

\* C16: whatever form resolved it, a due date has the hour and minute that
\* the input's am/pm expression names, 17:00 without such an expression
\* (an hour past 12 pm counts on into the next day); tomorrow at 3:30 PM,
\* read on 2025-06-01 09:00, is 2025-06-02 15:30.
C16_TimeOfDay ==
    Extracted =>
        /\ \A d \in DateTexts : \A k \in ClockCases \cup {LateClock} :
              input = Pay(d, k.text) =>
                  /\ HasDue <=> d # NoOrdinal
                  /\ HasDue => getHours(Due) * 60 + getMinutes(Due)
                                   = (k.hour * 60 + k.minute) % MinutesPerDay
        /\ \A a, b \in FormCases :
              (input = Then(a.text, b.text) /\ HasDue) =>
                  (getHours(Due) = 17 /\ getMinutes(Due) = 0)
        /\ (now = Sunday0900
               /\ input = <<"pay", " ", "tomorrow", " ", "at", " ", "3", ":", "30", " ", "PM">>) =>
              result.v.dueDate = DateOf(NewDate(2025, 5, 2, 15, 30))

\* next week at 12 am has been read on a Wednesday morning
C16_Witness ==
    /\ Extracted /\ now = Sunday0900 + 3 * MinutesPerDay
    /\ input = <<"pay", " ", "next", " ", "week", " ", "12", "am">>
    /\ result.v.dueDate = DateOf(NewDate(2025, 5, 11, 0, 0))

\* of two phrases, the one whose form decides: the earlier form, unless its
\* phrase resolves no date
Decides(a, b) ==
    IF a.place = 0 THEN b
    ELSE IF b.place = 0 THEN a
    ELSE IF a.place < b.place THEN a ELSE b

\* C17: when an input holds phrases of two date forms, in either order of
\* writing, the due date is the one that the phrase of the earlier form
\* gives alone: ordinal before numeric before today, tomorrow, this week,
\* next week, weekday, in N days; a phrase that resolves no date decides
\* nothing.
C17_FirstFormWins ==
    Extracted =>
        /\ \A a, b \in FormCases :
              (a.place # b.place /\ input = Then(a.text, b.text)) =>
                  result.v.dueDate = extractDueDate(Decides(a, b).text, now)
        /\ (now = Sunday0900
               /\ input = <<"in", " ", "3", " ", "days", " ", "25", "th", " ", "June">>) =>
              result.v.dueDate = DateOf(NewDate(2025, 5, 25, 17, 0))

\* tomorrow stands before 5/6 in the input, and 5/6 has decided
C17_Witness ==
    /\ Extracted /\ now = Sunday0900
    /\ input = <<"tomorrow", " ", "5", "/", "6">>
    /\ result.v.dueDate = DateOf(NewDate(2025, 5, 5, 17, 0))

\* C18 (as the specification states it): a numeric date A/B is day A of
\* month B when B is a month number, and otherwise month A, day B: 6/25 is
\* the 25th of June.
C18_NumericReadings ==
    Extracted =>
        \A c \in NumericCases :
            input = Pay(c.text, <<>>) =>
                /\ HasDue
                /\ c.b <= 12 => (getMonth(Due) + 1 = c.b /\ getDate(Due) = c.a)
                /\ (c.b > 12 /\ c.a <= 12) =>
                      (getMonth(Due) + 1 = c.a /\ getDate(Due) = c.b)

\* C19 (as the specification states it): a this week phrase gives a Friday
\* on every weekday of now: the coming Friday before Friday, the Friday of
\* the following week on Friday and on Saturday.
C19_ThisWeekIsFriday ==
    Extracted =>
        \A w \in ThisWeekTexts : \A k \in ClockCases :
            input = Pay(w, k.text) =>
                /\ HasDue
                /\ getDay(Due) = 5
                /\ DaysAhead = IF getDay(now) < 5 THEN 5 - getDay(now)
                               ELSE 12 - getDay(now)

\* C20: a bare weekday name gives a date on that weekday, 1 to 7 days after
\* today; today's own weekday gives the day a week ahead.
C20_NextWeekday ==
    Extracted =>
        \A c \in WeekdayCases : \A k \in ClockCases :
            input = Pay(c.text, k.text) =>
                /\ HasDue
                /\ getDay(Due) = c.day
                /\ DaysAhead \in 1..7
                /\ getDay(now) = c.day => DaysAhead = 7

\* sunday has been read on a Sunday
C20_Witness ==
    /\ Extracted /\ now = Sunday0900
    /\ input = <<"pay", " ", "sunday">>
    /\ result.v.dueDate = DateOf(NewDate(2025, 5, 8, 17, 0))

\* the keyword lists by name, in their order; workout and homework are
\* written as the words they are made of
WordLists ==
    <<[name |-> "work",
       words |-> {<<"work">>, <<"office">>, <<"meeting">>, <<"project">>, <<"client">>,
                  <<"boss">>, <<"colleague">>, <<"deadline">>, <<"presentation">>,
                  <<"report">>}],
      [name |-> "personal",
       words |-> {<<"personal">>, <<"home">>, <<"family">>, <<"friend">>, <<"birthday">>,
                  <<"appointment">>, <<"shopping">>, <<"clean">>, <<"organize">>}],
      [name |-> "health",
       words |-> {<<"doctor">>, <<"gym">>, <<"exercise">>, <<"work", "out">>,
                  <<"medicine">>, <<"health">>, <<"medical">>, <<"therapy">>,
                  <<"dentist">>}],
      [name |-> "learning",
       words |-> {<<"study">>, <<"learn">>, <<"course">>, <<"book">>, <<"read">>,
                  <<"research">>, <<"tutorial">>, <<"practice">>, <<"home", "work">>}]>>
\* the lists before list g hold no keyword of the text
NoneBefore(s, g) == \A h \in 1..(g - 1) : ~Has(s, WordLists[h].words)

\* C21: the rule-based category is the first of work, personal, health,
\* learning whose list has a keyword contained in the lower-cased input,
\* wherever it stands; with keywords of several lists the earliest list
\* wins; with none the category is other.
C21_FirstCategoryWins ==
    Extracted =>
        /\ \A g \in 1..Len(WordLists) :
              (Has(input, WordLists[g].words) /\ NoneBefore(input, g)) =>
                  result.v.category = Str(<<WordLists[g].name>>)
        /\ NoneBefore(input, Len(WordLists) + 1) => result.v.category = Str(<<"other">>)

\* a learning keyword stands before a personal one: personal
C21_Witness ==
    /\ Extracted
    /\ input = <<"study", " ", "home">>
    /\ result.v.category = Str(<<"personal">>)

\* C24 (as stated): each keyword of personal, health and learning, given as
\* the input, selects its own category; workout gives health and homework
\* gives learning.
C24_EveryKeywordSelects ==
    Extracted =>
        \A g \in 2..Len(WordLists) : \A kw \in WordLists[g].words :
            input = kw => result.v.category = Str(<<WordLists[g].name>>)

\* C23 (as stated): a clock time introduced by by, at, on, before, after or
\* until is removed from the title in full: <words> at H:MM PM gives the
\* title <words>, with nothing of the time left behind.
C23_ClockPhraseRemoved ==
    Extracted =>
        \A w \in TitleWords : \A c \in PrefixedClocks :
            input = Then(w, c) => result.v.title = Str(w)

\* the relative forms, whose day does not depend on the time of day
RelativeTexts == ThisWeekTexts \cup OtherRelativeTexts \cup {c.text : c \in WeekdayCases}
\* the day on which the date form of the input falls when no time is written
DayOfForm(d) == DayCount(extractDueDate(Pay(d, <<>>), now).t)

\* C25 (as stated): for every expression the H[:MM] am/pm pattern matches,
\* the converted hour is in 0..23 and the minute in 0..59, so the due date
\* of a relative form stays on the day that the form selected.
C25_TimeWithinDay ==
    Extracted =>
        \A d \in DateTexts \ {NoOrdinal} : \A k \in ClockCases \cup {LateClock} :
            input = Pay(d, k.text) =>
                /\ targetTime(input).hour \in 0..23
                /\ targetTime(input).minute \in 0..59
                /\ d \in RelativeTexts => DayCount(Due) = DayOfForm(d)

(***************************************************************************)
(* Several callers of AITaskParser.parse.  JavaScript runs each call       *)
(* without interruption up to its await, so the steps of two calls         *)
(* interleave only there: one step starts a call and runs it to the await  *)
(* of chat.completions.create or to its return, another runs the rest.     *)
(***************************************************************************)
MaxCalls == 3

IdleCall == [pc |-> "idle", input |-> <<>>, result |-> NoValue]
CallInputs == {<<"xyzzy">>, <<"Call", " ", "client", " ", "tomorrow">>}

\* how the awaited request of a call may end
CallReplies ==
    {[kind |-> "error", value |-> NoValue],
     [kind |-> "json", value |-> ObjOf([priority |-> urgentP])]}

InitCalls ==
    /\ apiKey \in BOOLEAN
    /\ openai = "null" /\ isInitialized = FALSE /\ clientsBuilt = 0
    /\ pc = "idle" /\ input = <<>> /\ now = Sunday0900
    /\ requests = 0 /\ response = NoValue /\ result = NoValue /\ via = "none"
    /\ NormIdle /\ AuthIdle /\ HookIdle
    /\ calls = [c \in 1..MaxCalls |-> IdleCall]

\* call c of parse(inp) up to its return when there is no client
CallWithoutClient(c, inp) ==
    LET st == initialize(openai, isInitialized, apiKey)
    IN  /\ calls[c].pc = "idle" /\ st.openai = "null"
        /\ Initialized(st)
        /\ calls' = [calls EXCEPT ![c] = [pc |-> "fulfilled", input |-> inp,
                                          result |-> fallbackParse(inp, now)]]
        /\ UNCHANGED <<apiKey, pc, input, now, requests, response, result, via,
                       normVars, authVars, hookVars>>

\* call c of parse(inp) up to the await of chat.completions.create
CallWithClient(c, inp) ==
    LET st == initialize(openai, isInitialized, apiKey)
    IN  /\ calls[c].pc = "idle" /\ st.openai # "null"
        /\ Initialized(st)
        /\ calls' = [calls EXCEPT ![c] = [pc |-> "awaiting", input |-> inp,
                                          result |-> NoValue]]
        /\ UNCHANGED <<apiKey, pc, input, now, requests, response, result, via,
                       normVars, authVars, hookVars>>

\* the rest of call c once its awaited request has ended
CallResumes(c) ==
    /\ calls[c].pc = "awaiting"
    /\ \E resp \in CallReplies :
          \E o \in {settle(tryBlock(resp), calls[c].input, now, 1)} :
             calls' = [calls EXCEPT ![c] = [pc |-> o.state, input |-> calls[c].input,
                                            result |-> o.value]]
    /\ UNCHANGED <<parseVars, normVars, authVars, hookVars>>

\* the caller of call c has taken the result
CallReturns(c) ==
    /\ calls[c].pc = "fulfilled"
    /\ calls' = [calls EXCEPT ![c] = IdleCall]
    /\ UNCHANGED <<parseVars, normVars, authVars, hookVars>>

NextCalls ==
    \/ \E c \in 1..MaxCalls, inp \in CallInputs : CallWithoutClient(c, inp)
    \/ \E c \in 1..MaxCalls, inp \in CallInputs : CallWithClient(c, inp)
    \/ \E c \in 1..MaxCalls : CallResumes(c)
    \/ \E c \in 1..MaxCalls : CallReturns(c)

SpecCalls == InitCalls /\ [][NextCalls]_vars

(***************************************************************************)
(* Properties of concurrent parse calls                                    *)
(***************************************************************************)
\* the calls stopped at their await
Awaiting == {c \in DOMAIN calls : calls[c].pc = "awaiting"}

\* C22: over any interleaving of parse calls the client is constructed at
\* most once; once initialize has run, the client reference and the
\* initialized flag never change again; and no step of parse writes any
\* other state shared between the calls (the configured key).
C22_ClientBuiltOnce ==
    /\ [](clientsBuilt <= 1)
    /\ [][/\ apiKey' = apiKey
          /\ isInitialized => (openai' = openai /\ isInitialized')]_vars

\* two calls wait for the model at once, and a third has already ended,
\* all on the one client
C22_Witness ==
    /\ Cardinality(Awaiting) >= 2
    /\ \E c \in DOMAIN calls : calls[c].pc = "fulfilled"
    /\ clientsBuilt = 1 /\ openai = "client"

(***************************************************************************)
(* useTasks (src/src/hooks/useTasks.ts) with its callers: TaskInput and    *)
(* App for addTask, the task list for toggleTaskComplete, deleteTask and   *)
(* updateTask, EditTaskDialog for updateTask.  The store is the tasks      *)
(* table, newest row first.  One hook operation is in flight at a time; a  *)
(* step runs a handler up to its awaited store request, another step runs  *)
(* what follows the await, in the hook and in the handler that awaited it. *)
(* Timestamps are dates written as text; createdAt is left out.            *)
(***************************************************************************)
MaxTasks == 2

Bool(b) == [type |-> "boolean", v |-> b]
TheUser == Str(<<"u1">>)
TaskIds == 1..MaxTasks

\* Date.prototype.toISOString and new Date(text) on a stored timestamp
toISOString(d) == [type |-> "timestamp", t |-> d.t]
DateFromISO(x) == DateOf(x.t)

\* x || other
Or(x, other) == IF Truthy(x) THEN x ELSE other

mapDbTaskToTask(dbTask) ==
    [id |-> dbTask.id,
     title |-> dbTask.title,
     description |-> Or(dbTask.description, Undef),
     priority |-> dbTask.priority,
     category |-> dbTask.category,
     dueDate |-> IF Truthy(dbTask.due_date) THEN DateFromISO(dbTask.due_date) ELSE Undef,
     completed |-> dbTask.completed,
     tags |-> Or(dbTask.tags, Undef)]

\* insertData of addTask, with the id the store gives the row
insertData(userId, taskData, id) ==
    [id |-> id,
     user_id |-> userId,
     title |-> taskData.title,
     description |-> Or(taskData.description, Null),
     priority |-> taskData.priority,
     category |-> taskData.category,
     due_date |-> IF taskData.dueDate = Undef THEN Null
                  ELSE toISOString(taskData.dueDate),
     completed |-> taskData.completed,
     tags |-> Or(taskData.tags, Null)]

UpdateFields ==
    {"title", "description", "priority", "category", "dueDate", "completed", "tags"}
NoUpdates == [f \in UpdateFields |-> Undef]
Column(field) == IF field = "dueDate" THEN "due_date" ELSE field
FieldOf(column) == IF column = "due_date" THEN "dueDate" ELSE column

\* the column value updateTask writes for a field that is not undefined
columnValue(updates, field) ==
    IF field = "dueDate"
    THEN IF updates.dueDate.type = "date" THEN toISOString(updates.dueDate) ELSE Null
    ELSE updates[field]

\* an updateData that names every column, null where the update set has
\* undefined
updateDataAllColumns(updates) ==
    [c \in {Column(f) : f \in UpdateFields} |->
        IF updates[FieldOf(c)] = Undef THEN Null
        ELSE columnValue(updates, FieldOf(c))]

\* updateData of updateTask: the columns sent to the store
updateData(updates) ==
    [c \in {Column(f) : f \in {g \in UpdateFields : updates[g] # Undef}} |->
        columnValue(updates, FieldOf(c))]

\* the store's UPDATE of one row
Updated(row, data) ==
    [c \in DOMAIN row |-> IF c \in DOMAIN data THEN data[c] ELSE row[c]]

RowIds == {rows[i].id : i \in DOMAIN rows}
TaskIdsShown == {tasks[i].id : i \in DOMAIN tasks}
RowOf(store, id) == CHOOSE r \in {store[i] : i \in DOMAIN store} : r.id = id
TaskOf(list, id) == CHOOSE t \in {list[i] : i \in DOMAIN list} : t.id = id
FreshId == CHOOSE id \in TaskIds : id \notin RowIds /\ \A j \in TaskIds \ RowIds : id <= j
WithoutId(list, id) == SelectSeq(list, LAMBDA x : x.id # id)

\* setTasks after the store answered an insert, an update, a delete
afterInsert(prev, row, outcome) ==
    IF outcome = "ok" THEN <<mapDbTaskToTask(row)>> \o prev ELSE prev

afterUpdate(prev, taskId, row, outcome) ==
    IF outcome = "ok"
    THEN [i \in DOMAIN prev |->
            IF prev[i].id = taskId THEN mapDbTaskToTask(row) ELSE prev[i]]
    ELSE prev

\* a deleteTask that drops the task from the list whatever the store said
afterDeleteOptimistic(prev, taskId, outcome) == WithoutId(prev, taskId)

afterDelete(prev, taskId, outcome) ==
    IF outcome = "ok" THEN WithoutId(prev, taskId) ELSE prev

\* text.split(sep)
RECURSIVE split(_, _)
split(s, sep) ==
    IF \A i \in 1..Len(s) : s[i] # sep THEN <<s>>
    ELSE LET k == CHOOSE i \in 1..Len(s) : s[i] = sep /\ \A j \in 1..(i - 1) : s[j] # sep
         IN  <<SubSeq(s, 1, k - 1)>> \o split(SubSeq(s, k + 1, Len(s)), sep)

\* data.tags.split(',').map(tag => tag.trim()).filter(Boolean)
tagsOfText(text) ==
    SelectSeq([i \in DOMAIN split(text, ",") |-> trim(split(text, ",")[i])],
              LAMBDA x : x # <<>>)

\* new Date(`${data.dueDate}T${time}:00`), the seconds left out
dueDateOfForm(data) ==
    parseISOUnits(data.dueDate \o <<"T">>
                  \o (IF data.dueTime # <<>> THEN data.dueTime ELSE <<"17", ":", "00">>))

\* the update set EditTaskDialog.onSubmit builds from the form values
dialogUpdates(data) ==
    [title |-> Str(data.title),
     description |-> Or(Str(data.description), Undef),
     priority |-> data.priority,
     category |-> data.category,
     tags |-> IF data.tags # <<>> THEN Arr(tagsOfText(data.tags)) ELSE Undef,
     dueDate |-> IF data.dueDate # <<>> THEN dueDateOfForm(data) ELSE Undef,
     completed |-> Undef]

\* what the user may type into TaskInput
TypedTexts ==
    {<<" ">>,
     <<"Call", " ", "client", " ", "tomorrow", " ", "#", "work", " ",
       "notes", ":", " ", "bring", " ", "id">>}

\* values the edit form may hold when it is submitted: every field filled
\* in, and due date, description and tags emptied
FilledForm ==
    [title |-> <<"Buy", " ", "milk">>, description |-> <<"two", " ", "litres">>,
     priority |-> highP, category |-> personalC,
     dueDate |-> <<"2025", "-", "06", "-", "25">>, dueTime |-> <<>>,
     tags |-> <<"shop", ",", " ", "home", ",", " ">>]
EmptiedForm ==
    [title |-> <<"Buy", " ", "milk">>, description |-> <<>>,
     priority |-> highP, category |-> personalC,
     dueDate |-> <<>>, dueTime |-> <<"12", ":", "30">>, tags |-> <<>>]
DialogForms == {FilledForm, EmptiedForm}

\* handleAddTask: { ...parsedTask, completed: false }; without an API key
\* TaskParser.parse returns what fallbackParse returns
taskDataOf(parsedTask) ==
    [title |-> parsedTask.title, description |-> parsedTask.description,
     priority |-> parsedTask.priority, category |-> parsedTask.category,
     dueDate |-> parsedTask.dueDate, tags |-> parsedTask.tags,
     completed |-> Bool(FALSE)]

IdleOp ==
    [pc |-> "idle", caller |-> "none", kind |-> "none", user |-> Null, taskId |-> 0,
     sent |-> NoValue, data |-> NoValue, outcome |-> "none"]
Awaited(caller, kind, taskId, sent, data) ==
    [pc |-> "awaiting", caller |-> caller, kind |-> kind, user |-> user,
     taskId |-> taskId, sent |-> sent, data |-> data, outcome |-> "none"]
Ended(o, outcome) == [o EXCEPT !.pc = "ended", !.outcome = outcome]

InitTasks ==
    /\ apiKey = FALSE /\ openai = "null" /\ isInitialized = FALSE /\ clientsBuilt = 0
    /\ pc = "idle" /\ input = <<>> /\ now = Sunday0900
    /\ requests = 0 /\ response = NoValue /\ result = NoValue /\ via = "none"
    /\ NormIdle /\ CallsIdle
    /\ user = TheUser /\ isLoading = FALSE /\ auth = NoValue
    /\ tasks = <<>> /\ rows = <<>> /\ toasts = {} /\ op = IdleOp
    /\ form = [input |-> <<>>, isProcessing |-> FALSE]
    /\ configured \in BOOLEAN

\* TaskInput's onChange
Type(text) ==
    /\ op.pc = "idle"
    /\ form' = [form EXCEPT !.input = text]
    /\ UNCHANGED <<parseVars, normVars, callVars, authVars, tasks, rows, toasts, op,
                   configured>>

\* AuthProvider sets user to null; loadTasks returns at once
SignOut ==
    /\ user # Null
    /\ user' = Null
    /\ UNCHANGED <<parseVars, normVars, callVars, isLoading, auth, hookVars>>

\* handleSubmit after `await onAddTask(input)` returned
afterOnAddTask == [input |-> <<>>, isProcessing |-> FALSE]

\* handleSubmit -> handleAddTask -> addTask, up to the awaited insert or,
\* where addTask returns before it, to the end of handleSubmit
Submit ==
    /\ op.pc = "idle" /\ trim(form.input) # <<>> /\ ~form.isProcessing
    /\ Len(rows) < MaxTasks
    /\ \E o \in {Awaited("handleSubmit", "insert", 0,
                         taskDataOf(fallbackParse(form.input, now).v), NoValue)} :
          IF user = Null
          THEN /\ op' = Ended(o, "noUser")
               /\ toasts' = {"Authentication required"}
               /\ form' = afterOnAddTask
          ELSE IF ~configured
          THEN /\ op' = Ended(o, "notConfigured")
               /\ toasts' = {"Database not configured"}
               /\ form' = afterOnAddTask
          ELSE /\ op' = o
               /\ toasts' = {}
               /\ form' = [form EXCEPT !.isProcessing = TRUE]
    /\ UNCHANGED <<parseVars, normVars, callVars, authVars, tasks, rows, configured>>

\* the notification addTask raises; the four texts it has for a store error
\* (by error code) and the one of its catch block are all toast.error, and
\* stand here as one
InsertToasts(outcome) ==
    CASE outcome = "ok" -> {"Task added successfully!"}
      [] outcome = "noData" -> {"No data returned"}
      [] OTHER -> {"Failed to add task"}

\* the awaited insert ends; the rest of addTask, handleAddTask, handleSubmit
InsertSettles ==
    /\ op.pc = "awaiting" /\ op.kind = "insert"
    /\ \E outcome \in {"ok", "error", "noData", "throws"} :
       \E row \in {insertData(op.user, op.sent, FreshId)} :
          /\ rows' = IF outcome \in {"ok", "noData"} THEN <<row>> \o rows ELSE rows
          /\ tasks' = afterInsert(tasks, row, outcome)
          /\ toasts' = InsertToasts(outcome)
          /\ op' = [Ended(op, outcome) EXCEPT !.taskId = row.id]
    /\ form' = afterOnAddTask
    /\ UNCHANGED <<parseVars, normVars, callVars, authVars, configured>>

\* updateTask(taskId, updates) up to its awaited update or its early end
updateTaskCall(caller, taskId, updates, data) ==
    IF user = Null
    THEN op' = Ended(Awaited(caller, "update", taskId, NoValue, data), "noUser")
         /\ toasts' = {}
    ELSE IF updates = Undef \/ (updates.dueDate.type = "date" /\ ~updates.dueDate.valid)
    THEN op' = Ended(Awaited(caller, "update", taskId, NoValue, data), "throws")
         /\ toasts' = {"Failed to update task"}
    ELSE op' = Awaited(caller, "update", taskId, updateData(updates), data)
         /\ toasts' = {}

\* the list's onEdit={updateTask}, called by a task card as onEdit(task.id)
EditClicked(taskId) ==
    /\ op.pc = "idle" /\ taskId \in TaskIdsShown
    /\ updateTaskCall("onEdit", taskId, Undef, NoValue)
    /\ UNCHANGED <<parseVars, normVars, callVars, authVars, tasks, rows, form,
                   configured>>

\* EditTaskDialog.onSubmit with onSave = updateTask
DialogSubmit(taskId, data) ==
    /\ op.pc = "idle" /\ taskId \in TaskIdsShown
    /\ updateTaskCall("onSubmit", taskId, dialogUpdates(data), data)
    /\ UNCHANGED <<parseVars, normVars, callVars, authVars, tasks, rows, form,
                   configured>>

\* toggleTaskComplete(taskId) up to `await updateTask(...)`
ToggleTaskComplete(taskId) ==
    /\ op.pc = "idle" /\ user # Null /\ taskId \in TaskIdsShown
    /\ updateTaskCall("toggleTaskComplete", taskId,
                      [NoUpdates EXCEPT
                          !.completed = Bool(~TaskOf(tasks, taskId).completed.v)],
                      NoValue)
    /\ UNCHANGED <<parseVars, normVars, callVars, authVars, tasks, rows, form,
                   configured>>

\* what toggleTaskComplete shows once updateTask has returned
ToggleToasts(newCompleted) ==
    IF newCompleted THEN {"Task completed!"} ELSE {"Task reopened"}

\* the awaited update ends; the rest of updateTask and of its caller
UpdateSettles ==
    /\ op.pc = "awaiting" /\ op.kind = "update"
    /\ \E outcome \in {"ok", "error", "throws"} :
          /\ outcome = "ok" => op.taskId \in RowIds
          /\ \E row \in {IF op.taskId \in RowIds
                         THEN Updated(RowOf(rows, op.taskId), op.sent) ELSE NoValue} :
                /\ rows' = IF outcome = "ok"
                           THEN [i \in DOMAIN rows |->
                                   IF rows[i].id = op.taskId THEN row ELSE rows[i]]
                           ELSE rows
                /\ tasks' = afterUpdate(tasks, op.taskId, row, outcome)
          /\ toasts' = (IF outcome = "ok" THEN {} ELSE {"Failed to update task"})
                       \cup (IF op.caller = "toggleTaskComplete"
                             THEN ToggleToasts(op.sent.completed.v) ELSE {})
          /\ op' = Ended(op, outcome)
    /\ UNCHANGED <<parseVars, normVars, callVars, authVars, form, configured>>

\* deleteTask(taskId) up to its awaited delete
DeleteTask(taskId) ==
    /\ op.pc = "idle" /\ user # Null /\ taskId \in TaskIdsShown
    /\ op' = Awaited("deleteTask", "delete", taskId, NoValue, NoValue)
    /\ toasts' = {}
    /\ UNCHANGED <<parseVars, normVars, callVars, authVars, tasks, rows, form,
                   configured>>

\* the awaited delete ends; the rest of deleteTask
DeleteSettles ==
    /\ op.pc = "awaiting" /\ op.kind = "delete"
    /\ \E outcome \in {"ok", "error", "throws"} :
          /\ rows' = IF outcome = "ok" THEN WithoutId(rows, op.taskId) ELSE rows
          /\ tasks' = afterDelete(tasks, op.taskId, outcome)
          /\ toasts' = IF outcome = "ok" THEN {"Task deleted"}
                       ELSE {"Failed to delete task"}
          /\ op' = Ended(op, outcome)
    /\ UNCHANGED <<parseVars, normVars, callVars, authVars, form, configured>>

\* the handler has returned; the next one may start
Done ==
    /\ op.pc = "ended"
    /\ op' = IdleOp /\ toasts' = {}
    /\ UNCHANGED <<parseVars, normVars, callVars, authVars, tasks, rows, form,
                   configured>>

NextTasks ==
    \/ \E text \in TypedTexts : Type(text)
    \/ SignOut
    \/ Submit
    \/ InsertSettles
    \/ \E id \in TaskIds : EditClicked(id)
    \/ \E id \in TaskIds, data \in DialogForms : DialogSubmit(id, data)
    \/ \E id \in TaskIds : ToggleTaskComplete(id)
    \/ UpdateSettles
    \/ \E id \in TaskIds : DeleteTask(id)
    \/ DeleteSettles
    \/ Done

SpecTasks == InitTasks /\ [][NextTasks]_vars

(***************************************************************************)
(* Properties of useTasks and its callers                                  *)
(***************************************************************************)
\* this step ends the operation in flight
Ends == op.pc # "ended" /\ op'.pc = "ended"
\* this step ends it with the store's confirmation
Confirmed == op.pc = "awaiting" /\ op'.pc = "ended" /\ op'.outcome = "ok"
Positions(list, id) == {i \in DOMAIN list : list[i].id = id}

\* C26: the local list changes only in a step in which the store confirmed
\* the operation; an operation that ends on an error, a throw or without a
\* signed-in user leaves the list exactly as it was; a confirmed insert puts
\* the stored task in front of the old list, a confirmed update replaces
\* the task with that id by the stored one and no other, a confirmed delete
\* removes the task with that id and no other.
C26_ListFollowsStore ==
    [][/\ tasks' # tasks => Confirmed
       /\ (Ends /\ op'.outcome # "ok") => tasks' = tasks
       /\ (Confirmed /\ op.kind = "insert") =>
             /\ Len(tasks') = Len(tasks) + 1
             /\ SubSeq(tasks', 2, Len(tasks')) = tasks
             /\ tasks'[1].id \notin TaskIdsShown
             /\ tasks'[1].title = op.sent.title
             /\ tasks'[1].completed = Bool(FALSE)
       /\ (Confirmed /\ op.kind = "update") =>
             /\ Len(tasks') = Len(tasks)
             /\ \A i \in DOMAIN tasks :
                   IF tasks[i].id = op.taskId
                   THEN /\ tasks'[i].id = op.taskId
                        /\ \A c \in DOMAIN op.sent \ {"due_date"} :
                              tasks'[i][c] = op.sent[c]
                   ELSE tasks'[i] = tasks[i]
       /\ (Confirmed /\ op.kind = "delete") =>
             /\ Len(tasks') = Len(tasks) - Cardinality(Positions(tasks, op.taskId))
             /\ Positions(tasks', op.taskId) = {}
             /\ \A i \in DOMAIN tasks' : \E j \in DOMAIN tasks :
                   j >= i /\ tasks'[i] = tasks[j]]_vars

\* of two listed tasks the second was edited and confirmed: it alone shows
\* the submitted title
C26_Witness ==
    /\ op.pc = "ended" /\ op.caller = "onSubmit" /\ op.outcome = "ok"
    /\ Len(tasks) = 2 /\ tasks[2].id = op.taskId
    /\ tasks[2].title = Str(op.data.title)
    /\ tasks[1].title # Str(op.data.title)

SuccessToasts == {"Task completed!", "Task reopened"}

\* C27: a toggle that has ended shows 'Task completed' or 'Task reopened'
\* only if the store accepted the update and the listed task carries the
\* new completed flag.
C27_ToggleSuccessOnlyWhenApplied ==
    (op.pc = "ended" /\ op.caller = "toggleTaskComplete"
        /\ toasts \cap SuccessToasts # {})
    => /\ op.outcome = "ok"
       /\ TaskOf(tasks, op.taskId).completed = op.sent.completed

\* C28: when the submit flow has ended with the input cleared, the task was
\* stored.
C28_InputClearedOnlyWhenStored ==
    (op.pc = "ended" /\ op.caller = "handleSubmit" /\ form.input = <<>>)
    => (op.outcome = "ok" /\ op.taskId \in RowIds)

\* the columns of the fields a form leaves empty, and of those it fills in
EmptiedColumns(data) ==
    {c \in {"description", "due_date", "tags"} :
        \/ c = "description" /\ data.description = <<>>
        \/ c = "due_date" /\ data.dueDate = <<>>
        \/ c = "tags" /\ data.tags = <<>>}
FormColumns == {"title", "description", "priority", "category", "due_date", "tags"}

MaxEvents == 3

\* the provider is constructed, its effect has not run
Unmounted ==
    [mounted |-> FALSE, subscribed |-> FALSE, timer |-> "none", getSession |-> "none",
     isLoadingSeen |-> TRUE, session |-> Null, userSetBy |-> "useState", events |-> 0]

InitAuth ==
    /\ apiKey = FALSE /\ openai = "null" /\ isInitialized = FALSE /\ clientsBuilt = 0
    /\ pc = "idle" /\ input = <<>> /\ now = 0
    /\ requests = 0 /\ response = NoValue /\ result = NoValue /\ via = "none"
    /\ NormIdle /\ CallsIdle
    /\ tasks = <<>> /\ rows = <<>> /\ toasts = {} /\ op = NoValue /\ form = NoValue
    /\ configured \in BOOLEAN
    /\ user = Null /\ isLoading = TRUE
    /\ auth \in {[Unmounted EXCEPT !.session = s] : s \in {Null, TheUser}}

\* the effect runs: initializeAuth up to its await or its early return, then
\* the subscription
Mount ==
    /\ ~auth.mounted /\ ~auth.subscribed /\ auth.getSession = "none"
    /\ IF ~configured
       THEN /\ user' = Null /\ isLoading' = FALSE
            /\ auth' = [auth EXCEPT !.mounted = TRUE, !.subscribed = TRUE,
                                    !.isLoadingSeen = isLoading,
                                    !.userSetBy = "initializeAuth"]
       ELSE /\ UNCHANGED <<user, isLoading>>
            /\ auth' = [auth EXCEPT !.mounted = TRUE, !.subscribed = TRUE,
                                    !.isLoadingSeen = isLoading,
                                    !.timer = "armed", !.getSession = "pending"]
    /\ UNCHANGED <<parseVars, normVars, callVars, hookVars>>

\* the timer's callback
TimeoutFires ==
    /\ auth.timer = "armed"
    /\ IF auth.mounted /\ auth.isLoadingSeen
       THEN /\ user' = Null /\ isLoading' = FALSE
            /\ auth' = [auth EXCEPT !.timer = "fired", !.userSetBy = "timeout"]
       ELSE /\ UNCHANGED <<user, isLoading>>
            /\ auth' = [auth EXCEPT !.timer = "fired"]
    /\ UNCHANGED <<parseVars, normVars, callVars, hookVars>>

\* getSession settles: with the client's session, with an error, or rejected
SessionAnswers(outcome) ==
    /\ auth.getSession = "pending"
    /\ IF ~auth.mounted
       THEN /\ auth' = [auth EXCEPT !.getSession = outcome]
            /\ UNCHANGED <<user, isLoading>>
       ELSE /\ user' = IF outcome = "session" THEN auth.session ELSE Null
            /\ isLoading' = FALSE
            /\ auth' = [auth EXCEPT !.getSession = outcome,
                                    !.userSetBy = "initializeAuth",
                                    !.timer = IF outcome = "rejected" THEN @
                                              ELSE IF @ = "armed" THEN "cleared" ELSE @]
    /\ UNCHANGED <<parseVars, normVars, callVars, hookVars>>

\* the client reports an auth state change carrying session s
AuthStateChange(s) ==
    /\ auth.subscribed /\ auth.events < MaxEvents
    /\ IF ~auth.mounted
       THEN /\ auth' = [auth EXCEPT !.session = s, !.events = @ + 1]
            /\ UNCHANGED <<user, isLoading>>
       ELSE /\ user' = s
            /\ isLoading' = IF auth.isLoadingSeen THEN FALSE ELSE isLoading
            /\ auth' = [auth EXCEPT !.session = s, !.events = @ + 1,
                                    !.userSetBy = "onAuthStateChange"]
    /\ UNCHANGED <<parseVars, normVars, callVars, hookVars>>

\* the effect's cleanup
Unmount ==
    /\ auth.mounted
    /\ auth' = [auth EXCEPT !.mounted = FALSE, !.subscribed = FALSE,
                            !.timer = IF @ = "armed" THEN "cleared" ELSE @]
    /\ UNCHANGED <<user, isLoading, parseVars, normVars, callVars, hookVars>>

NextAuth ==
    \/ Mount
    \/ TimeoutFires
    \/ \E outcome \in {"session", "error", "rejected"} : SessionAnswers(outcome)
    \/ \E s \in {Null, TheUser} : AuthStateChange(s)
    \/ Unmount

SpecAuth == InitAuth /\ [][NextAuth]_vars

(***************************************************************************)
(* Properties of AuthProvider                                              *)
(***************************************************************************)
\* C29: when an auth state change has set a signed-in user, who still has
\* the session, the timer's callback leaves that user in place, whatever
\* the order of the getSession answer, the events and the timer.
C29_TimeoutKeepsSignedInUser ==
    [][(/\ auth.timer = "armed" /\ auth'.timer = "fired"
        /\ user # Null /\ auth.userSetBy = "onAuthStateChange"
        /\ auth.session = user)
       => user' = user]_vars

====
